---------------------------- MODULE Spec2Model ----------------------------
(***************************************************************************)
(* A model of pooly's per-host connection pool (src/pool.go, the Pool of   *)
(* lines 380-611 with src/atomic.go and the Conn of src/conn.go), and of   *)
(* its Service with the RoundRobin strategy (src/unnamed/part_001,         *)
(* src/bandit.go, src/host.go), whose pools are seen from outside.         *)
(*                                                                         *)
(* Every goroutine is a process: the garbage collector (Pool.collect),     *)
(* the spawners (Pool.newConn), the idle-timer goroutines (Conn.setIdle)   *)
(* and the callers of Get, Put, New, Close and ForceClose.  One action is  *)
(* one access to shared memory (an atomic, a channel operation, a timer    *)
(* operation) together with the local computation that follows it.         *)
(* Time is abstracted: an armed timer may expire, and a finite WaitTimeout *)
(* may elapse, at any moment.                                              *)
(***************************************************************************)
EXTENDS Integers, Sequences, FiniteSets, Bags, TLC

\* ---------------------------------------------------------------- bounds
MaxConns == 2      \* PoolConfig.MaxConns of the pool under test
MaxAttempts == 2   \* PoolConfig.MaxAttempts of the pool under test
NConns == 2        \* Driver.Dial succeeds at most this many times
MaxCalls == 3      \* calls of the Pool's methods in flight at once
MaxPending == 1    \* newConn goroutines launched and not yet scheduled
MaxOps == 4        \* calls of the Pool's methods made in a run
GetAttempts == 2   \* ServiceConfig.GetAttempts of the service under test
NThreads == 3      \* goroutines of the application that use the service
NAddrs == 3        \* addresses the application knows
MaxHosts == 4      \* Host objects the service creates in a run
MaxScript == 2     \* length of a thread's script in the generic tests
ScoreUnit == 10    \* a score is a number of 1/ScoreUnit
SeriesNum == 3     \* seriesNum, the capacity of Host.timeSeries
MaxTrials == 2     \* ratings of a Host within one slot of its time series
Mantissa == 4      \* bits of the significand of a float64 of a strategy
MaxTaken == 2      \* Get and Put calls on the pool of a Host that is deleted

\* --------------------------------------------------- constants of the code
active == 0        \* pool status
closing == 1
closed == 2

Nil == 0           \* the nil *Conn

HostDown == 0      \* the predefined scores
HostUp == ScoreUnit

\* the results of Service.GetConn other than a connection, which is given
\* by the address of its Host
ErrNoHostAvailable == 0
ErrGet == -1       \* the error of Pool.Get, wrapped with the service's name
ConnIds == 1..NConns

VARIABLES
    Driver,        \* PoolConfig.Driver, by how its Dial and TestOnBorrow
                   \* behave: "any", "badBorrow" or "badDial"
    IdleTimeout,   \* PoolConfig.IdleTimeout > 0
    WaitTimeout,   \* PoolConfig.WaitTimeout > 0
    status,        \* Pool.status
    inbound,       \* Pool.inbound: "conns" or "gc"
    connsCount,    \* Pool.connsCount.c
    conns,         \* Pool.conns: the buffered idle channel
    connsClosed,   \* close(p.conns) has been executed
    gc,            \* Pool.gc: the buffered GC channel
    gcCtl,         \* Pool.gcCtl: buffered, one slot
    timer,         \* Conn.timer and its goroutine, per connection
    isClosed,      \* Conn.closed, per connection
    driverClosed,  \* number of Driver.Close calls, per connection
    dialed,        \* number of connections Driver.Dial has returned
    gcpc,          \* collect's position
    pending,       \* go p.newConn() launched, increment not yet run
    spawners,      \* bag of newConn goroutines past their increment
    calls,         \* bag of calls in flight
    ops,           \* number of calls made so far
    out,           \* connections a caller holds (returned by Get, not yet Put)
    forceCalled,   \* ForceClose has been called
    interrupted,   \* a ForceClose that set CLOSED while a connection was
                   \* checked out: "no", "called" or "returned" (with true)
    closeNil,      \* number of Close calls that returned nil
    panicked       \* the method whose goroutine panicked (the process is
                   \* gone), or ""

\* A service test: every thread of the application runs a script, a
\* sequence of calls, one after the other.
VARIABLES
    test,          \* the script of each thread
    serversUp,     \* the servers behind the addresses are up and answer: a
                   \* Pool.Get on a pool that is not closed succeeds
    at,            \* the position of each thread in its script
    thr,           \* each thread's call in flight: its position in GetConn,
                   \* GetConn's `attempts`, the number of times it has
                   \* selected a Host, the Host it selected last
    got,           \* the results of each thread's GetConn calls
    held,          \* the Host of the connection each thread holds, or 0
    hosts,         \* Service.hosts: the Host of each address, or 0
    hostCount,     \* Host objects created so far
    hostAddr,      \* Host.pool.Address(), per Host
    score,         \* Host.score, per Host
    serie,         \* Host.timeSeries[Host.timeSlot], per Host: the number
                   \* of ratings and the number of HostUp among them
    poolClosed,    \* Close has been called on Host.pool, per Host
    closers,       \* Hosts whose `go func() { ... h.pool.Close() }` has
                   \* yet to run
    servepc,       \* Service.serve's position
    servea,        \* the address serve has received
    nextSchedule,  \* RoundRobin.nextSchedule
    nextAvailSlot  \* RoundRobin.nextAvailSlot

\* The strategy of the service, the calls of Conn.Release, and the time
\* series of one Host.
VARIABLES
    strategy,      \* ServiceConfig.BanditStrategy: "RoundRobin",
                   \* "EpsilonGreedy" or "SoftMax"
    sel,           \* each thread's call of EpsilonGreedy.Select or
                   \* SoftMax.Select: its position, its random draws, its
                   \* locals and its result
    released,      \* the results of each thread's Release calls
    puts,          \* per Host, where the connections its Pool.Put accepted
                   \* went: "gc" or "inbound"
    timeSeries,    \* Host.timeSeries of the Host whose score is computed
    timeSlot,      \* Host.timeSlot of that Host
    memo,          \* Host.score of that Host, as a fraction: computeScore's
                   \* result, or -1
    stop,          \* whether Service.Close has closed s.stop
    deadline       \* per Host, the CloseDeadline timer of deleteHost: "" (not
                   \* started), "armed" or "fired"

service == <<test, serversUp, at, thr, got, held, hosts, hostCount, hostAddr, score,
             serie, poolClosed, closers, servepc, servea, nextSchedule,
             nextAvailSlot>>

pool == <<Driver, IdleTimeout, WaitTimeout, status, inbound, connsCount, conns,
          connsClosed, gc, gcCtl, timer, isClosed, driverClosed, dialed,
          gcpc, pending, spawners, calls, ops, out, forceCalled,
          interrupted, closeNil, panicked>>

bandit == <<strategy, sel>>
scoring == <<timeSeries, timeSlot, memo>>
shutdown == <<stop, deadline>>
more == <<released, puts, bandit, scoring, shutdown>>

vars == <<pool, service, more>>

Threads == 1..NThreads
Addresses == 1..NAddrs
HostIds == 1..MaxHosts

\* a call of a script
Op(op, a) == [op |-> op, a |-> a]

\* a thread that is not in a strategy's Select; else its position and the
\* locals of Select: the Hosts the range over the map has given,
\* EpsilonGreedy's max, SoftMax's exp and sum, and the host to return; and
\* whether a score was stored after EpsilonGreedy's loop read it
NoSelect ==
    [pc |-> "", seen |-> {}, max |-> -1, stale |-> FALSE,
     exp |-> [h \in HostIds |-> [num |-> 0, den |-> 1]],
     sum |-> [num |-> 0, den |-> 1], host |-> 0]

\* a serie with no rating: the number of ratings and their sum (the mean
\* that serie.update keeps is sum / trials)
NoSerie == [trials |-> 0, sum |-> 0]

\* no score computed yet: -1, as the fraction -1/1
NoScore == [num |-> -1, den |-> 1]

\* a thread between two calls
Idle == [pc |-> "idle", attempts |-> 0, tries |-> 0, h |-> 0]

\* NewService with strategy st (the default is NewRoundRobin()): no host,
\* serve started, both counters of RoundRobin at zero
NewServiceWith(t, up, st) ==
    /\ strategy = st
    /\ sel = [th \in Threads |-> NoSelect]
    /\ released = [th \in Threads |-> <<>>]
    /\ puts = [h \in HostIds |-> <<>>]
    /\ timeSeries = <<NoSerie>>
    /\ timeSlot = 0
    /\ memo = NoScore
    /\ stop = FALSE
    /\ deadline = [h \in HostIds |-> ""]
    /\ test = t
    /\ serversUp = up
    /\ at = [th \in Threads |-> 1]
    /\ thr = [th \in Threads |-> Idle]
    /\ got = [th \in Threads |-> <<>>]
    /\ held = [th \in Threads |-> 0]
    /\ hosts = [a \in Addresses |-> 0]
    /\ hostCount = 0
    /\ hostAddr = [h \in HostIds |-> 0]
    /\ score = [h \in HostIds |-> -1]
    /\ serie = [h \in HostIds |-> NoSerie]
    /\ poolClosed = [h \in HostIds |-> FALSE]
    /\ closers = {}
    /\ servepc = "select"
    /\ servea = 0
    /\ nextSchedule = 0
    /\ nextAvailSlot = 0

NewService(t, up) == NewServiceWith(t, up, "RoundRobin")

\* no thread calls the service
NoTest == [th \in Threads |-> <<>>]


config == <<Driver, IdleTimeout, WaitTimeout>>
poolv == <<status, inbound, connsCount, conns, connsClosed, gc, gcCtl>>
connv == <<timer, isClosed, driverClosed, dialed>>
spawnv == <<pending, spawners>>
histv == <<ops, forceCalled, interrupted, closeNil>>

\* ------------------------------------------------------------- atomic.go
\* state.is with an equality test in place of the rank test
isExactly(s, i) == s = i

\* state.is
is(s, i) == s >= i

\* a set that succeeds whatever the status is
setAlways(s, i) == TRUE

\* state.set: whether the compare-and-set loop ends with a store
setOK(s, i) == ~(s >= i)

\* an unconditional store in place of state.set's compare-and-set
store(s, i) == i

\* state.set: the value left in the state
set(s, i) == IF setOK(s, i) THEN i ELSE s

\* counter.increment without the test of the maximum
incrementAlways(n) == TRUE

\* counter.increment with the maximum off by one
incrementPast(n) == n # MaxConns + 1

\* counter.increment: whether the loop ends with a store of n+1
incrementOK(n) == n # MaxConns

\* counter.zero with the drained test off by one
zeroOrOne(n) == ~(n > 1)

\* counter.zero: whether the counter reads as drained
zero(n) == ~(n > 0)

\* a zero that leaves the counter alone
zeroStay(n) == n

\* counter.zero: the value left in the counter (parked at the maximum)
zeroPark(n) == IF zero(n) THEN MaxConns ELSE n

\* counter.decrement
decrement(n) == n - 1

\* counter.fetch, through Pool.ActiveConns
ActiveConns == connsCount

\* ---------------------------------------------------------------- conn.go
\* Conn.setIdle: the timer state after arming (no timer without IdleTimeout)
setIdle(t) == IF IdleTimeout THEN "armed" ELSE t

\* Conn.setActive that does not look at the timer
setActiveAlways(t) == TRUE

\* Conn.setActive that gives up on every connection that has a timer
setActiveUnarmed(t) == t = "nil"

\* Conn.setActive: false when the timer exists and could not be stopped
setActive(t) == t = "nil" \/ t = "armed"

\* the timer after setActive or setClosed tried to stop it
stopTimer(t) == IF t = "armed" THEN "off" ELSE t

\* --------------------------------------------------------------- channels
Full(ch) == Len(ch) >= MaxConns
CtlFull == Len(gcCtl) >= 1

\* ---------------------------------------------------------- bags of processes
Add(b, r) == b (+) SetToBag({r})
Del(b, r) == b (-) SetToBag({r})
Upd(b, r, q) == Add(Del(b, r), q)

Spawner(pc, c, ch) == [pc |-> pc, c |-> c, ch |-> ch]

\* a call in flight: its method, its position, the connection it holds, the
\* inbound channel a Put has read, the error a Put was called with or the
\* one Driver.TestOnBorrow gave a Get, and its result
Call(op, pc, c) ==
    [op |-> op, pc |-> pc, c |-> c, ch |-> "", err |-> "", ret |-> ""]

At(r, op, pc) == r.op = op /\ r.pc = pc
Goto(r, pc) == [r EXCEPT !.pc = pc]
Ret(r, v) == [r EXCEPT !.pc = "ret", !.ret = v]

\* A call that has its result returns at once: the return is local to the
\* caller's goroutine, so no step of another goroutine is taken in between.
\* After a panic the process is gone and nothing runs.
Running == panicked = "" /\ \A r \in BagToSet(calls) : r.pc # "ret"

\* -------------------------------------------------------------------- Init
\* NewPool: status active, inbound = &p.conns, counter 0, empty channels,
\* collect started.
NewPool(driver) ==
    /\ Driver = driver
    /\ IdleTimeout \in BOOLEAN
    /\ WaitTimeout \in BOOLEAN
    /\ status = active
    /\ inbound = "conns"
    /\ connsCount = 0
    /\ conns = <<>>
    /\ connsClosed = FALSE
    /\ gc = <<>>
    /\ gcCtl = <<>>
    /\ timer = [c \in ConnIds |-> "nil"]
    /\ isClosed = [c \in ConnIds |-> FALSE]
    /\ driverClosed = [c \in ConnIds |-> 0]
    /\ dialed = 0
    /\ gcpc = "top"
    /\ pending = 0
    /\ spawners = EmptyBag
    /\ calls = EmptyBag
    /\ ops = 0
    /\ out = {}
    /\ forceCalled = FALSE
    /\ interrupted = "no"
    /\ closeNil = 0
    /\ panicked = ""

\* a pool whose driver may fail or succeed at every Dial and TestOnBorrow,
\* used without a service
Init == NewPool("any") /\ NewService(NoTest, TRUE)


\* ------------------------------------------------------ Pool.collect (GC)
\* `if p.status.is(closing) && p.connsCount.zero()`.  The status only grows,
\* so a true is(closing) still holds when zero() runs: the two reads are one
\* step.
collectTop ==
    /\ Running /\ gcpc = "top"
    /\ IF is(status, closing) /\ zero(connsCount)
       THEN /\ connsCount' = zeroPark(connsCount)
            /\ gcpc' = "setclosed"
       ELSE /\ gcpc' = "select"
            /\ UNCHANGED connsCount
    /\ UNCHANGED <<config, service, more, status, inbound, conns, connsClosed, gc, gcCtl,
                   connv, spawnv, calls, out, histv, panicked>>

\* `if p.status.set(closed)`
collectSetClosed ==
    /\ Running /\ gcpc = "setclosed"
    /\ gcpc' = IF setOK(status, closed) THEN "closeconns" ELSE "exit"
    /\ status' = set(status, closed)
    /\ UNCHANGED <<config, service, more, inbound, connsCount, conns, connsClosed, gc, gcCtl,
                   connv, spawnv, calls, out, histv, panicked>>

\* `close(p.conns)`, then return; closing a closed channel panics
collectCloseConns ==
    /\ Running /\ gcpc = "closeconns"
    /\ gcpc' = "exit"
    /\ IF connsClosed
       THEN panicked' = "collect" /\ UNCHANGED connsClosed
       ELSE connsClosed' = TRUE /\ UNCHANGED panicked
    /\ UNCHANGED <<config, service, more, status, inbound, connsCount, conns, gc, gcCtl,
                   connv, spawnv, calls, out, histv>>

\* `case ctl := <-p.gcCtl`: wakeup continues the loop, kill returns
collectCtl ==
    /\ Running /\ gcpc = "select"
    /\ gcCtl # <<>>
    /\ gcpc' = IF Head(gcCtl) = "kill" THEN "exit" ELSE "top"
    /\ gcCtl' = Tail(gcCtl)
    /\ UNCHANGED <<config, service, more, status, inbound, connsCount, conns, connsClosed,
                   gc, connv, spawnv, calls, out, histv, panicked>>

\* collect's test without the isClosed guard
mustCloseAny(c) == c # Nil

\* `c != nil && !c.isClosed()`: the entry is closed now
mustClose(c) == c # Nil /\ ~isClosed[c]

\* collect without the branch of the sentinel
isSentinelNever(c) == FALSE

\* `else if c == nil`: the failed-spawn sentinel
isSentinel(c) == c = Nil

\* `case c = <-p.gc`, then for an open connection c.setClosed(),
\* p.Driver.Close(c) and p.connsCount.decrement(), for the nil sentinel the
\* decrement alone, and for a closed connection (a duplicate) nothing.
\* collect alone reads Conn.closed, and no other goroutine's step depends on
\* the order of the three: they are one step.
collectRecv ==
    /\ Running /\ gcpc = "select"
    /\ gc # <<>>
    /\ gc' = Tail(gc)
    /\ gcpc' = "top"
    /\ LET c == Head(gc) IN
       IF mustClose(c)
       THEN /\ timer' = [timer EXCEPT ![c] = stopTimer(@)]
            /\ isClosed' = [isClosed EXCEPT ![c] = TRUE]
            /\ driverClosed' = [driverClosed EXCEPT ![c] = @ + 1]
            /\ connsCount' = decrement(connsCount)
       ELSE /\ connsCount' = IF isSentinel(c) THEN decrement(connsCount)
                             ELSE connsCount
            /\ UNCHANGED <<timer, isClosed, driverClosed>>
    /\ UNCHANGED <<config, service, more, status, inbound, conns, connsClosed, gcCtl, dialed,
                   spawnv, calls, out, histv, panicked>>

collect ==
    \/ collectTop
    \/ collectSetClosed
    \/ collectCloseConns
    \/ collectCtl
    \/ collectRecv

\* ------------------------------------------------- the idle timer goroutine
\* `case <-c.timer.C`: the timer expires
timerExpire ==
    /\ Running
    /\ \E c \in ConnIds :
        /\ timer[c] = "armed"
        /\ timer' = [timer EXCEPT ![c] = "fired"]
    /\ UNCHANGED <<config, service, more, poolv, isClosed, driverClosed, dialed, gcpc, spawnv,
                   calls, out, histv, panicked>>

\* `p.gc <- c` of the expired timer's goroutine
timerCollect ==
    /\ Running
    /\ \E c \in ConnIds :
        /\ timer[c] = "fired"
        /\ ~Full(gc)
        /\ gc' = Append(gc, c)
        /\ timer' = [timer EXCEPT ![c] = "off"]
    /\ UNCHANGED <<config, service, more, status, inbound, connsCount, conns, connsClosed,
                   gcCtl, isClosed, driverClosed, dialed, gcpc, spawnv, calls,
                   out, histv, panicked>>

\* ------------------------------------------------------------ Pool.newConn
\* The Driver.Dial loop: the driver fails `fails` times in a row.  Within
\* MaxAttempts attempts the loop ends with a connection (returned with no
\* error or a temporary one), else with none.
dialSucceeds(fails) == fails < MaxAttempts

\* how many times in a row Driver.Dial may fail a spawner: a "badDial"
\* driver fails every attempt, a "badBorrow" driver succeeds within the
\* attempts, any other driver does either
DialFailures ==
    CASE Driver = "badDial" -> {MaxAttempts}
      [] Driver = "badBorrow" -> 0..(MaxAttempts - 1)
      [] OTHER -> 0..MaxAttempts

\* `if !p.connsCount.increment() { return }`, then the dial loop, which
\* touches nothing of the pool, and c.setIdle(p) for a new connection.
\* Driver.Dial returns at most NConns connections in a run.
newConnIncrement ==
    /\ Running
    /\ pending > 0
    /\ pending' = pending - 1
    /\ IF incrementOK(connsCount)
       THEN /\ connsCount' = connsCount + 1
            /\ \E fails \in DialFailures :
                IF dialSucceeds(fails)
                THEN /\ dialed < NConns
                     /\ dialed' = dialed + 1
                     /\ timer' = [timer EXCEPT ![dialed + 1] = setIdle(@)]
                     /\ spawners' = Add(spawners, Spawner("inbound", dialed + 1, ""))
                ELSE /\ spawners' = Add(spawners, Spawner("failed", Nil, ""))
                     /\ UNCHANGED <<dialed, timer>>
       ELSE UNCHANGED <<connsCount, spawners, dialed, timer>>
    /\ UNCHANGED <<config, service, more, status, inbound, conns, connsClosed, gc, gcCtl,
                   isClosed, driverClosed, gcpc, calls, out, histv, panicked>>

\* `p.inbound.channel()`: the atomic load of the handle
newConnInbound ==
    /\ Running
    /\ \E s \in BagToSet(spawners) :
        /\ s.pc = "inbound"
        /\ spawners' = Upd(spawners, s, Spawner("send", s.c, inbound))
    /\ UNCHANGED <<config, service, more, poolv, connv, gcpc, pending, calls, out, histv,
                   panicked>>

\* `... <- c` on the channel read; a send on the closed idle channel panics
newConnSend ==
    /\ Running
    /\ \E s \in BagToSet(spawners) :
        /\ s.pc = "send"
        /\ \/ /\ s.ch = "conns" /\ connsClosed
              /\ panicked' = "newConn"
              /\ UNCHANGED <<conns, gc, spawners>>
           \/ /\ s.ch = "conns" /\ ~connsClosed /\ ~Full(conns)
              /\ conns' = Append(conns, s.c)
              /\ spawners' = Del(spawners, s)
              /\ UNCHANGED <<gc, panicked>>
           \/ /\ s.ch = "gc" /\ ~Full(gc)
              /\ gc' = Append(gc, s.c)
              /\ spawners' = Del(spawners, s)
              /\ UNCHANGED <<conns, panicked>>
    /\ UNCHANGED <<config, service, more, status, inbound, connsCount, connsClosed, gcCtl,
                   connv, gcpc, pending, calls, out, histv>>

\* `p.gc <- nil // connection failed`
newConnFailed ==
    /\ Running
    /\ \E s \in BagToSet(spawners) :
        /\ s.pc = "failed"
        /\ ~Full(gc)
        /\ gc' = Append(gc, Nil)
        /\ spawners' = Del(spawners, s)
    /\ UNCHANGED <<config, service, more, status, inbound, connsCount, conns, connsClosed,
                   gcCtl, connv, gcpc, pending, calls, out, histv, panicked>>

newConn ==
    \/ newConnIncrement
    \/ newConnInbound
    \/ newConnSend
    \/ newConnFailed

\* ------------------------------------------------------------------ callers
\* A goroutine of the application calls a method of the pool.  The call and
\* the method's first access to the pool's state are one step.
CanCall == Running /\ BagCardinality(calls) < MaxCalls /\ ops < MaxOps

\* The call returns to the application: a connection returned by Get is
\* now held by the caller.
return ==
    /\ panicked = ""
    /\ \E r \in BagToSet(calls) :
        /\ r.pc = "ret"
        /\ calls' = Del(calls, r)
        /\ out' = IF r.op = "Get" /\ r.ret = "conn" THEN out \cup {r.c} ELSE out
        /\ closeNil' = IF r.op = "Close" /\ r.ret = "nil"
                       THEN closeNil + 1 ELSE closeNil
        /\ interrupted' = IF r.op = "ForceClose" /\ r.ret = "true"
                             /\ interrupted = "called"
                          THEN "returned" ELSE interrupted
    /\ UNCHANGED <<config, service, more, poolv, connv, gcpc, spawnv, ops, forceCalled,
                   panicked>>

\* ---------------------------------------------------------------- Pool.New
\* `if p.status.is(closing) { return ErrPoolClosed }`
NewRefused == is(status, closing)

\* New(n): the status check, then n times `go p.newConn()`
New ==
    /\ CanCall
    /\ \E n \in 1..MaxPending :
        IF NewRefused
        THEN /\ calls' = Add(calls, Ret(Call("New", "", n), "closed"))
             /\ UNCHANGED pending
        ELSE /\ pending + n <= MaxPending
             /\ pending' = pending + n
             /\ calls' = Add(calls, Ret(Call("New", "", n), "nil"))
    /\ ops' = ops + 1
    /\ UNCHANGED <<config, service, more, poolv, connv, gcpc, spawners, out, forceCalled,
                   interrupted, closeNil, panicked>>

\* ---------------------------------------------------------------- Pool.Get
\* `if p.status.is(closing) { return nil, ErrPoolClosed }`
GetRefused == is(status, closing)

GetEnter(r) == IF GetRefused THEN Ret(r, "closed") ELSE Goto(r, "select")

\* Get is called
GetCall ==
    /\ CanCall
    /\ calls' = Add(calls, GetEnter(Call("Get", "", Nil)))
    /\ ops' = ops + 1
    /\ UNCHANGED <<config, service, more, poolv, connv, gcpc, spawnv, out, forceCalled,
                   interrupted, closeNil, panicked>>

\* `return p.Get()`: Get starts over
GetAgain ==
    /\ Running
    /\ \E r \in BagToSet(calls) :
        /\ At(r, "Get", "again")
        /\ calls' = Upd(calls, r, GetEnter(r))
    /\ UNCHANGED <<config, service, more, poolv, connv, gcpc, spawnv, out, histv, panicked>>

\* The first select: a connection of the idle channel, nil of the closed
\* channel (`if c == nil` then returns ErrPoolClosed), or the default case.
GetSelect ==
    /\ Running
    /\ \E r \in BagToSet(calls) :
        /\ At(r, "Get", "select")
        /\ IF conns # <<>>
           THEN /\ calls' = Upd(calls, r, [Goto(r, "gotone") EXCEPT !.c = Head(conns)])
                /\ conns' = Tail(conns)
           ELSE /\ calls' = Upd(calls, r, IF connsClosed THEN Ret(r, "closed")
                                          ELSE Goto(r, "new"))
                /\ UNCHANGED conns
    /\ UNCHANGED <<config, service, more, status, inbound, connsCount, connsClosed, gc, gcCtl,
                   connv, gcpc, spawnv, out, histv, panicked>>

\* `if err := p.New(1); err != nil { return nil, err }`
GetNew ==
    /\ Running
    /\ \E r \in BagToSet(calls) :
        /\ At(r, "Get", "new")
        /\ IF NewRefused
           THEN /\ calls' = Upd(calls, r, Ret(r, "closed"))
                /\ UNCHANGED pending
           ELSE /\ pending < MaxPending
                /\ pending' = pending + 1
                /\ calls' = Upd(calls, r, Goto(r, "wait"))
    /\ UNCHANGED <<config, service, more, poolv, connv, gcpc, spawners, out, histv, panicked>>

\* The second select: a connection, nil of the closed channel, or the
\* timeout when WaitTimeout > 0.
GetWait ==
    /\ Running
    /\ \E r \in BagToSet(calls) :
        /\ At(r, "Get", "wait")
        /\ \/ /\ conns # <<>>
              /\ calls' = Upd(calls, r, [Goto(r, "gotone") EXCEPT !.c = Head(conns)])
              /\ conns' = Tail(conns)
           \/ /\ conns = <<>> /\ connsClosed
              /\ calls' = Upd(calls, r, Ret(r, "closed"))
              /\ UNCHANGED conns
           \/ /\ WaitTimeout
              /\ calls' = Upd(calls, r, Ret(r, "timeout"))
              /\ UNCHANGED conns
    /\ UNCHANGED <<config, service, more, status, inbound, connsCount, connsClosed, gc, gcCtl,
                   connv, gcpc, spawnv, out, histv, panicked>>

\* Driver.TestOnBorrow's verdicts: no error, a temporary error, a fatal one;
\* a "badBorrow" driver gives a fatal error every time
TestOnBorrow ==
    IF Driver = "badBorrow" THEN {"fatal"} ELSE {"nil", "temporary", "fatal"}

\* a Get that discards the connection on every error of TestOnBorrow
borrowFailedAny(err) == err # "nil"

\* `if !p.Driver.Temporary(err) { p.gc <- c; return p.Get() }`
borrowFailed(err) == err = "fatal"

\* gotone: `if !c.setActive() { return p.Get() }`, then Driver.TestOnBorrow
GetGotOne ==
    /\ Running
    /\ \E r \in BagToSet(calls) :
        /\ At(r, "Get", "gotone")
        /\ IF setActive(timer[r.c])
           THEN /\ timer' = [timer EXCEPT ![r.c] = stopTimer(@)]
                /\ \E err \in TestOnBorrow :
                     calls' = Upd(calls, r,
                                  IF borrowFailed(err)
                                  THEN [Goto(r, "collect") EXCEPT !.err = err]
                                  ELSE [Ret(r, "conn") EXCEPT !.err = err])
           ELSE /\ calls' = Upd(calls, r, [Goto(r, "again") EXCEPT !.c = Nil])
                /\ UNCHANGED timer
    /\ UNCHANGED <<config, service, more, poolv, isClosed, driverClosed, dialed, gcpc, spawnv,
                   out, histv, panicked>>

\* `p.gc <- c; return p.Get()`
GetCollect ==
    /\ Running
    /\ \E r \in BagToSet(calls) :
        /\ At(r, "Get", "collect")
        /\ ~Full(gc)
        /\ gc' = Append(gc, r.c)
        /\ calls' = Upd(calls, r, [Goto(r, "again") EXCEPT !.c = Nil, !.err = ""])
    /\ UNCHANGED <<config, service, more, status, inbound, connsCount, conns, connsClosed,
                   gcCtl, connv, gcpc, spawnv, out, histv, panicked>>

Get ==
    \/ GetCall
    \/ GetAgain
    \/ GetSelect
    \/ GetNew
    \/ GetWait
    \/ GetGotOne
    \/ GetCollect

\* ---------------------------------------------------------------- Pool.Put
\* `if p.status.is(closed) { return ErrPoolClosed }`
PutRefused == is(status, closed)

\* a Put that takes no error for a fatal one
putFailedNever(fatal) == FALSE

\* `if e != nil && !p.Driver.Temporary(e)`
putFailed(fatal) == fatal

\* the error a Put was called with, as its record keeps it
PutError(fatal) == IF fatal THEN "fatal" ELSE ""

\* Put(c, e) is called with a connection the application holds, or nil; e
\* is nil or a temporary error (fatal = FALSE), or a non-temporary one.
\* The status check, the nil check, the verdict on e, and c.setIdle(p) for a
\* healthy connection (the caller holds c: nothing else reads its timer).
PutCall ==
    /\ CanCall
    /\ \E c \in out \cup {Nil}, fatal \in BOOLEAN :
        /\ out' = out \ {c}
        /\ IF PutRefused
           THEN /\ calls' = Add(calls, Ret(Call("Put", "", c), "closed"))
                /\ UNCHANGED timer
           ELSE IF c = Nil
           THEN /\ calls' = Add(calls, Ret(Call("Put", "", c), "invalid"))
                /\ UNCHANGED timer
           ELSE IF putFailed(fatal)
           THEN /\ calls' = Add(calls, [Call("Put", "collect", c)
                                           EXCEPT !.err = PutError(fatal)])
                /\ UNCHANGED timer
           ELSE /\ calls' = Add(calls, [Call("Put", "inbound", c)
                                           EXCEPT !.err = PutError(fatal)])
                /\ timer' = [timer EXCEPT ![c] = setIdle(@)]
    /\ ops' = ops + 1
    /\ UNCHANGED <<config, service, more, poolv, isClosed, driverClosed, dialed, gcpc, spawnv,
                   forceCalled, interrupted, closeNil, panicked>>

\* `p.gc <- c; return nil` for a fatal error
PutCollect ==
    /\ Running
    /\ \E r \in BagToSet(calls) :
        /\ At(r, "Put", "collect")
        /\ ~Full(gc)
        /\ gc' = Append(gc, r.c)
        /\ calls' = Upd(calls, r, Ret(r, "nil"))
    /\ UNCHANGED <<config, service, more, status, inbound, connsCount, conns, connsClosed,
                   gcCtl, connv, gcpc, spawnv, out, histv, panicked>>

\* `p.inbound.channel()`: the atomic load of the handle
PutInbound ==
    /\ Running
    /\ \E r \in BagToSet(calls) :
        /\ At(r, "Put", "inbound")
        /\ calls' = Upd(calls, r, [Goto(r, "send") EXCEPT !.ch = inbound])
    /\ UNCHANGED <<config, service, more, poolv, connv, gcpc, spawnv, out, histv, panicked>>

\* `... <- c; return nil`; a send on the closed idle channel panics (this
\* Put has no recover)
PutSend ==
    /\ Running
    /\ \E r \in BagToSet(calls) :
        /\ At(r, "Put", "send")
        /\ \/ /\ r.ch = "conns" /\ connsClosed
              /\ panicked' = "Put"
              /\ UNCHANGED <<conns, gc, calls>>
           \/ /\ r.ch = "conns" /\ ~connsClosed /\ ~Full(conns)
              /\ conns' = Append(conns, r.c)
              /\ calls' = Upd(calls, r, Ret(r, "nil"))
              /\ UNCHANGED <<gc, panicked>>
           \/ /\ r.ch = "gc" /\ ~Full(gc)
              /\ gc' = Append(gc, r.c)
              /\ calls' = Upd(calls, r, Ret(r, "nil"))
              /\ UNCHANGED <<conns, panicked>>
    /\ UNCHANGED <<config, service, more, status, inbound, connsCount, connsClosed, gcCtl,
                   connv, gcpc, spawnv, out, histv>>

Put ==
    \/ PutCall
    \/ PutCollect
    \/ PutInbound
    \/ PutSend

\* -------------------------------------------------------------- Pool.Close
\* `if p.status.is(closing) { return ErrPoolClosed }`
CloseRefused == is(status, closing)

\* Close is entered: ErrPoolClosed, or on to the swap
CloseEnter ==
    calls' = Add(calls, IF CloseRefused
                        THEN Ret(Call("Close", "", Nil), "closed")
                        ELSE Call("Close", "swap", Nil))

\* Close is called
CloseCall ==
    /\ CanCall
    /\ CloseEnter
    /\ ops' = ops + 1
    /\ UNCHANGED <<config, service, more, poolv, connv, gcpc, spawnv, out, forceCalled,
                   interrupted, closeNil, panicked>>

\* a handle that keeps designating the idle channel
channelSetNone(p) == "conns"

\* channel.set: `atomic.StorePointer(&c.p, unsafe.Pointer(p))`
channelSet(p) == p

\* `p.inbound.set(&p.gc)`
CloseSwap ==
    /\ Running
    /\ \E r \in BagToSet(calls) :
        /\ At(r, "Close", "swap")
        /\ inbound' = channelSet("gc")
        /\ calls' = Upd(calls, r, Goto(r, "closing"))
    /\ UNCHANGED <<config, service, more, status, connsCount, conns, connsClosed, gc, gcCtl,
                   connv, gcpc, spawnv, out, histv, panicked>>

\* `p.status.set(closing)`
CloseSetClosing ==
    /\ Running
    /\ \E r \in BagToSet(calls) :
        /\ At(r, "Close", "closing")
        /\ status' = set(status, closing)
        /\ calls' = Upd(calls, r, Goto(r, "wakeup"))
    /\ UNCHANGED <<config, service, more, inbound, connsCount, conns, connsClosed, gc, gcCtl,
                   connv, gcpc, spawnv, out, histv, panicked>>

\* `p.gcCtl <- wakeup`
CloseWakeup ==
    /\ Running
    /\ \E r \in BagToSet(calls) :
        /\ At(r, "Close", "wakeup")
        /\ ~CtlFull
        /\ gcCtl' = Append(gcCtl, "wakeup")
        /\ calls' = Upd(calls, r, Goto(r, "range"))
    /\ UNCHANGED <<config, service, more, status, inbound, connsCount, conns, connsClosed, gc,
                   connv, gcpc, spawnv, out, histv, panicked>>

\* `for c := range p.conns`: the next idle connection, or the end of the
\* loop and `return nil` once the channel is closed and empty
CloseRange ==
    /\ Running
    /\ \E r \in BagToSet(calls) :
        /\ At(r, "Close", "range")
        /\ \/ /\ conns # <<>>
              /\ calls' = Upd(calls, r, [Goto(r, "collect") EXCEPT !.c = Head(conns)])
              /\ conns' = Tail(conns)
           \/ /\ conns = <<>> /\ connsClosed
              /\ calls' = Upd(calls, r, Ret(r, "nil"))
              /\ UNCHANGED conns
    /\ UNCHANGED <<config, service, more, status, inbound, connsCount, connsClosed, gc, gcCtl,
                   connv, gcpc, spawnv, out, histv, panicked>>

\* `p.gc <- c` of the drain loop
CloseCollect ==
    /\ Running
    /\ \E r \in BagToSet(calls) :
        /\ At(r, "Close", "collect")
        /\ ~Full(gc)
        /\ gc' = Append(gc, r.c)
        /\ calls' = Upd(calls, r, [Goto(r, "range") EXCEPT !.c = Nil])
    /\ UNCHANGED <<config, service, more, status, inbound, connsCount, conns, connsClosed,
                   gcCtl, connv, gcpc, spawnv, out, histv, panicked>>

Close ==
    \/ CloseCall
    \/ CloseSwap
    \/ CloseSetClosing
    \/ CloseWakeup
    \/ CloseRange
    \/ CloseCollect

\* --------------------------------------------------------- Pool.ForceClose
\* `if p.status.is(closing) && p.status.set(closed)`.  The status only
\* grows, so a true is(closing) still holds when set(closed) runs: the two
\* are one step.
ForceCloseWins == is(status, closing) /\ setOK(status, closed)

\* ForceClose is entered: the status becomes closed if it was closing,
\* else `return false`
ForceCloseEnter ==
    /\ IF ForceCloseWins
       THEN /\ status' = set(status, closed)
            /\ calls' = Add(calls, Call("ForceClose", "closeconns", Nil))
       ELSE /\ calls' = Add(calls, Ret(Call("ForceClose", "", Nil), "false"))
            /\ UNCHANGED status
    /\ forceCalled' = TRUE
    /\ interrupted' = IF ForceCloseWins /\ out # {} THEN "called"
                      ELSE interrupted

\* ForceClose is called
ForceCloseCall ==
    /\ CanCall
    /\ ForceCloseEnter
    /\ ops' = ops + 1
    /\ UNCHANGED <<config, service, more, inbound, connsCount, conns, connsClosed, gc, gcCtl,
                   connv, gcpc, spawnv, out, closeNil, panicked>>

\* `close(p.conns)`
ForceCloseConns ==
    /\ Running
    /\ \E r \in BagToSet(calls) :
        /\ At(r, "ForceClose", "closeconns")
        /\ calls' = Upd(calls, r, Goto(r, "kill"))
        /\ IF connsClosed
           THEN panicked' = "ForceClose" /\ UNCHANGED connsClosed
           ELSE connsClosed' = TRUE /\ UNCHANGED panicked
    /\ UNCHANGED <<config, service, more, status, inbound, connsCount, conns, gc, gcCtl,
                   connv, gcpc, spawnv, out, histv>>

\* `p.gcCtl <- kill; return true`
ForceCloseKill ==
    /\ Running
    /\ \E r \in BagToSet(calls) :
        /\ At(r, "ForceClose", "kill")
        /\ ~CtlFull
        /\ gcCtl' = Append(gcCtl, "kill")
        /\ calls' = Upd(calls, r, Ret(r, "true"))
    /\ UNCHANGED <<config, service, more, status, inbound, connsCount, conns, connsClosed, gc,
                   connv, gcpc, spawnv, out, histv, panicked>>

ForceClose ==
    \/ ForceCloseCall
    \/ ForceCloseConns
    \/ ForceCloseKill

\* ------------------------------------------------------------ specification
Next ==
    \/ collect
    \/ timerExpire
    \/ timerCollect
    \/ newConn
    \/ return
    \/ New
    \/ Get
    \/ Put
    \/ Close
    \/ ForceClose

Spec == Init /\ [][Next]_vars

\* Gets on a pool whose driver always dials and whose TestOnBorrow always
\* fails fatally: the steps that can occur
BadBorrowNext ==
    \/ collectTop
    \/ collectRecv
    \/ timerExpire
    \/ timerCollect
    \/ newConnIncrement
    \/ newConnInbound
    \/ newConnSend
    \/ return
    \/ Get

\* the steps of the goroutines that exist: all of the above but a new call
BadBorrowRun ==
    \/ collectTop \/ collectRecv \/ timerExpire \/ timerCollect
    \/ newConnIncrement \/ newConnInbound \/ newConnSend \/ return
    \/ GetAgain \/ GetSelect \/ GetNew \/ GetWait \/ GetGotOne \/ GetCollect

\* The Go scheduler runs a goroutine that can take a step.
BadBorrowSpec ==
    /\ NewPool("badBorrow") /\ NewService(NoTest, TRUE)
    /\ [][BadBorrowNext]_vars /\ WF_vars(BadBorrowRun)

\* Gets and News on a pool whose driver fails every Dial: the steps that
\* can occur
BadDialNext ==
    \/ collectTop
    \/ collectRecv
    \/ newConnIncrement
    \/ newConnFailed
    \/ return
    \/ New
    \/ GetCall
    \/ GetSelect
    \/ GetNew
    \/ GetWait

BadDialSpec ==
    NewPool("badDial") /\ NewService(NoTest, TRUE) /\ [][BadDialNext]_vars

TypeOK ==
    /\ Driver \in {"any", "badBorrow", "badDial"}
    /\ status \in {active, closing, closed}
    /\ inbound \in {"conns", "gc"}
    /\ Len(conns) <= MaxConns /\ Len(gc) <= MaxConns /\ Len(gcCtl) <= 1
    /\ BagCardinality(calls) <= MaxCalls
    /\ interrupted \in {"no", "called", "returned"}
    /\ panicked \in {"", "collect", "newConn", "Put", "ForceClose"}
    /\ connsCount \in 0..MaxConns


\* ================================================================= Service
\* The pools of a service's hosts are seen from outside: a Pool.Get on a
\* pool returns a connection or an error (ErrPoolClosed, the only result
\* once Close has been called on the pool, or a timeout).

\* the call thread t is to make next, if any
Script(t) == test[t]
Finished(t) == at[t] > Len(Script(t)) /\ thr[t].pc = "idle"
NextOp(t) == Script(t)[at[t]]
Ready(t, op) ==
    thr[t].pc = "idle" /\ at[t] <= Len(Script(t)) /\ NextOp(t).op = op

\* the Hosts of the map
Members == {hosts[a] : a \in {b \in Addresses : hosts[b] # 0}}

\* ------------------------------------------------------------ RoundRobin
\* the orders in which `for _, h := range hosts` may visit the Hosts of the
\* map: Go leaves the iteration order of a map unspecified
Orders(S) ==
    {o \in [1..Cardinality(S) -> S] : \A i, j \in DOMAIN o : o[i] = o[j] => i = j}

\* the locals and the fields RoundRobin.Select works on
SelectState(sc, nas) ==
    [score |-> sc, nextAvailSlot |-> nas, offset |-> 0, host |-> 0, found |-> FALSE]

\* one round of Select's loop, on Host h
SelectVisit(st, h) ==
    LET fresh == st.score[h] < 0
        sc == IF fresh THEN [st.score EXCEPT ![h] = st.nextAvailSlot] ELSE st.score
        nas == IF fresh THEN st.nextAvailSlot + 1 ELSE st.nextAvailSlot
        hit == sc[h] = nextSchedule
        found == st.found \/ hit
        d == sc[h] - nextSchedule
        o == IF d < 0 THEN nas + d ELSE d
        better == ~found /\ (st.offset = 0 \/ o < st.offset)
    IN  [score |-> sc,
         nextAvailSlot |-> nas,
         offset |-> IF hit THEN 1 ELSE IF better THEN o + 1 ELSE st.offset,
         host |-> IF hit \/ better THEN h ELSE st.host,
         found |-> found]

RECURSIVE SelectLoop(_, _, _)
SelectLoop(st, order, i) ==
    IF i > Len(order) THEN st
    ELSE SelectLoop(SelectVisit(st, order[i]), order, i + 1)

\* RoundRobin.Select(hosts) with the map visited in the given order: the
\* locals after the loop
Select(order) == SelectLoop(SelectState(score, nextAvailSlot), order, 1)

\* a schedule that stays where it is
AdvanceStay(st) == nextSchedule

\* `r.nextSchedule = (r.nextSchedule + offset) % r.nextAvailSlot`
Advance(st) == (nextSchedule + st.offset) % st.nextAvailSlot

\* ------------------------------------------------------------------ Host
\* Host.rate, through serie.update: one more trial, and the mean moves to
\* the mean of all the scores rated
rate(sr, sc) == [trials |-> sr.trials + 1, sum |-> sr.sum + sc]

\* ---------------------------------------------------- Service.Add, Remove
\* `s.add <- address` meets serve's `case a := <-s.add`: Add returns and
\* serve goes on to s.newHost(a)
ServiceAdd(t) ==
    /\ Ready(t, "Add")
    /\ servepc = "select"
    /\ servepc' = "newHost"
    /\ servea' = NextOp(t).a
    /\ at' = [at EXCEPT ![t] = @ + 1]
    /\ UNCHANGED <<pool, more, test, serversUp, thr, got, held, hosts, hostCount, hostAddr,
                   score, serie, poolClosed, closers, nextSchedule,
                   nextAvailSlot>>

\* `s.rm <- address` meets serve's `case a := <-s.rm`
ServiceRemove(t) ==
    /\ Ready(t, "Remove")
    /\ servepc = "select"
    /\ servepc' = "deleteHost"
    /\ servea' = NextOp(t).a
    /\ at' = [at EXCEPT ![t] = @ + 1]
    /\ UNCHANGED <<pool, more, test, serversUp, thr, got, held, hosts, hostCount, hostAddr,
                   score, serie, poolClosed, closers, nextSchedule,
                   nextAvailSlot>>

\* --------------------------------------------------------- Service.serve
\* a map that knows no address
knownNever(a) == FALSE

\* `if h := s.hosts[a]; h != nil`
known(a) == hosts[a] # 0

\* Service.newHost under the write lock: nothing for an address of the map,
\* else a new pool and a new Host with score -1
newHost ==
    /\ servepc = "newHost"
    /\ servepc' = "select"
    /\ servea' = 0
    /\ IF known(servea)
       THEN UNCHANGED <<hosts, hostCount, hostAddr>>
       ELSE /\ hostCount < MaxHosts
            /\ hostCount' = hostCount + 1
            /\ hosts' = [hosts EXCEPT ![servea] = hostCount + 1]
            /\ hostAddr' = [hostAddr EXCEPT ![hostCount + 1] = servea]
    /\ UNCHANGED <<pool, more, test, serversUp, at, thr, got, held, score, serie, poolClosed,
                   closers, nextSchedule, nextAvailSlot>>

\* Service.deleteHost: the address leaves the map under the write lock, and
\* a goroutine is started to close the pool of its Host
deleteHost ==
    /\ servepc = "deleteHost"
    /\ servepc' = "select"
    /\ servea' = 0
    /\ hosts' = [hosts EXCEPT ![servea] = 0]
    /\ closers' = IF hosts[servea] # 0 THEN closers \cup {hosts[servea]}
                  ELSE closers
    /\ UNCHANGED <<pool, more, test, serversUp, at, thr, got, held, hostCount, hostAddr, score,
                   serie, poolClosed, nextSchedule, nextAvailSlot>>

\* `h.pool.Close()` of the goroutine deleteHost started (with ForceClose
\* after CloseDeadline): the pool refuses every Get from now on
closePool ==
    /\ \E h \in closers :
        /\ closers' = closers \ {h}
        /\ poolClosed' = [poolClosed EXCEPT ![h] = TRUE]
    /\ UNCHANGED <<pool, more, test, serversUp, at, thr, got, held, hosts, hostCount, hostAddr,
                   score, serie, servepc, servea, nextSchedule, nextAvailSlot>>

serve ==
    \/ newHost
    \/ deleteHost
    \/ closePool

\* ------------------------------------------------------- Service.GetConn
\* GetConn is called: `var attempts uint`
GetConnCall(t) ==
    /\ Ready(t, "GetConn")
    /\ thr' = [thr EXCEPT ![t] = [Idle EXCEPT !.pc = "again"]]
    /\ UNCHANGED <<pool, more, test, serversUp, at, got, held, hosts, hostCount, hostAddr, score,
                   serie, poolClosed, closers, servepc, servea, nextSchedule,
                   nextAvailSlot>>

\* GetConn retries for ever
retryAlways(attempts) == TRUE

\* `if attempts < s.GetAttempts { attempts++; goto again }`
retry(attempts) == attempts < GetAttempts

\* the thread's GetConn returns result r; a connection is bound to its Host
GetConnReturn(t, r, h) ==
    /\ thr' = [thr EXCEPT ![t] = Idle]
    /\ at' = [at EXCEPT ![t] = @ + 1]
    /\ got' = [got EXCEPT ![t] = Append(@, r)]
    /\ held' = [held EXCEPT ![t] = h]

\* again: under the read lock, `if len(s.hosts) == 0` then retry or return
\* ErrNoHostAvailable, else `h := s.BanditStrategy.Select(s.hosts)`.  The
\* write lock of newHost and deleteHost keeps the map as it is in between,
\* and Select runs under the strategy's own lock.
GetConnAgain(t) ==
    /\ thr[t].pc = "again"
    /\ IF Members = {}
       THEN /\ IF retry(thr[t].attempts)
               THEN /\ thr' = [thr EXCEPT ![t].attempts = @ + 1]
                    /\ UNCHANGED <<at, got, held>>
               ELSE GetConnReturn(t, ErrNoHostAvailable, 0)
            /\ UNCHANGED <<score, nextSchedule, nextAvailSlot>>
       ELSE /\ \E order \in Orders(Members) :
                 LET st == Select(order) IN
                 /\ score' = st.score
                 /\ nextAvailSlot' = st.nextAvailSlot
                 /\ nextSchedule' = Advance(st)
                 /\ thr' = [thr EXCEPT ![t].pc = "get", ![t].h = st.host,
                                        ![t].tries = @ + 1]
            /\ UNCHANGED <<at, got, held>>
    /\ UNCHANGED <<pool, more, test, serversUp, hosts, hostCount, hostAddr, serie, poolClosed,
                   closers, servepc, servea>>

\* whether Pool.Get on the pool of Host h may give a connection (TRUE), an
\* error (FALSE)
PoolGet(h) ==
    IF poolClosed[h] THEN {FALSE} ELSE IF serversUp THEN {TRUE} ELSE BOOLEAN

\* `c, err := h.pool.Get()`: a connection (`c.setHost(h); return c, nil`) or
\* an error
GetConnGet(t) ==
    /\ thr[t].pc = "get"
    /\ \E ok \in PoolGet(thr[t].h) :
        IF ok
        THEN GetConnReturn(t, hostAddr[thr[t].h], thr[t].h)
        ELSE /\ thr' = [thr EXCEPT ![t].pc = "rate"]
             /\ UNCHANGED <<at, got, held>>
    /\ UNCHANGED <<pool, more, test, serversUp, hosts, hostCount, hostAddr, score, serie,
                   poolClosed, closers, servepc, servea, nextSchedule,
                   nextAvailSlot>>

\* `h.rate(HostDown)`, then retry or `return nil, fmt.Errorf(...)`
GetConnRate(t) ==
    /\ thr[t].pc = "rate"
    /\ serie' = [serie EXCEPT ![thr[t].h] = rate(@, HostDown)]
    /\ IF retry(thr[t].attempts)
       THEN /\ thr' = [thr EXCEPT ![t].pc = "again", ![t].attempts = @ + 1]
            /\ UNCHANGED <<at, got, held>>
       ELSE GetConnReturn(t, ErrGet, 0)
    /\ UNCHANGED <<pool, more, test, serversUp, hosts, hostCount, hostAddr, score, poolClosed,
                   closers, servepc, servea, nextSchedule, nextAvailSlot>>

GetConn(t) ==
    \/ GetConnCall(t)
    \/ GetConnAgain(t)
    \/ GetConnGet(t)
    \/ GetConnRate(t)

\* ---------------------------------------------------------- Conn.Release
\* The argument of a Release call of a script stands for (err, score): err
\* is fatal (an error that Driver.Temporary denies) or not (nil, or a
\* temporary error), score is a number of 1/ScoreUnit, from -1 to
\* ScoreUnit + 1.
ReleaseArg(fatal, sc) == IF fatal THEN sc + 2 * (ScoreUnit + 2) ELSE sc
ArgFatal(a) == a > ScoreUnit + 1
ArgScore(a) == IF ArgFatal(a) THEN a - 2 * (ScoreUnit + 2) ELSE a

\* the thread has a Conn to call Release on: one of its GetConn calls
\* returned a connection
HasConn(t) == \E i \in DOMAIN got[t] : got[t][i] > 0

\* a Release that takes any score
validScoreAny(sc) == TRUE

\* `if score < 0 || score > 1 { return ErrInvalidArg }`
validScore(sc) == ~(sc < 0 \/ sc > ScoreUnit)

\* `if c.host == nil { return ErrNoHostAvailable }`
noHost(h) == h = 0

\* a Release that leaves the back-link as it is
unlinkNever(h) == h

\* `c.host = nil`
unlink(h) == 0

\* a Put that reports no error as fatal
PutDownNever(fatal) == FALSE

\* the `down` of `down, err := h.pool.Put(c, e)`: Put reports that the
\* error was fatal, that is that it took its `p.gc <- c` branch
PutDown(fatal) == putFailed(fatal)

\* whether the Pool.Put of Host h may accept the connection (TRUE) or
\* refuse it with ErrPoolClosed (FALSE): it refuses on a status CLOSED,
\* which a pool has from some moment after its Close was called
PoolPut(h) == IF poolClosed[h] THEN BOOLEAN ELSE {TRUE}

\* the thread's Release call returns r
ReleaseReturn(t, r) ==
    /\ released' = [released EXCEPT ![t] = Append(@, r)]
    /\ at' = [at EXCEPT ![t] = @ + 1]

\* c.Release(err, score) on the connection the thread got last: the two
\* checks, `h := c.host; c.host = nil`, and Host.releaseConn: Pool.Put, whose
\* error is returned, then h.rate(HostDown) if Put reported a fatal error,
\* h.rate(score) if not.  The connection is the caller's alone, and the
\* rating commutes with every other step: the call is one step.
Release(t) ==
    /\ Ready(t, "Release")
    /\ HasConn(t)
    /\ LET h == held[t]
           fatal == ArgFatal(NextOp(t).a)
           sc == ArgScore(NextOp(t).a)
       IN  IF noHost(h)
           THEN ReleaseReturn(t, "nohost") /\ UNCHANGED <<held, puts, serie>>
           ELSE IF ~validScore(sc)
           THEN ReleaseReturn(t, "invalid") /\ UNCHANGED <<held, puts, serie>>
           ELSE /\ held' = [held EXCEPT ![t] = unlink(h)]
                /\ \E ok \in PoolPut(h) :
                     IF ok
                     THEN /\ ReleaseReturn(t, "nil")
                          /\ puts' = [puts EXCEPT ![h] =
                                Append(@, IF putFailed(fatal) THEN "gc"
                                          ELSE "inbound")]
                          /\ serie' = [serie EXCEPT ![h] =
                                rate(@, IF PutDown(fatal) THEN HostDown
                                        ELSE sc)]
                     ELSE /\ ReleaseReturn(t, "closed")
                          /\ UNCHANGED <<puts, serie>>
    /\ UNCHANGED <<pool, bandit, scoring, shutdown, test, serversUp, thr, got, hosts,
                   hostCount, hostAddr, score, poolClosed, closers, servepc,
                   servea, nextSchedule, nextAvailSlot>>

\* ------------------------------------------------------- the application
\* `w.Wait()`: the thread goes on once every other thread is through
Wait(t) ==
    /\ Ready(t, "Wait")
    /\ \A u \in Threads \ {t} : Finished(u)
    /\ at' = [at EXCEPT ![t] = @ + 1]
    /\ UNCHANGED <<pool, more, test, serversUp, thr, got, held, hosts, hostCount, hostAddr,
                   score, serie, poolClosed, closers, servepc, servea,
                   nextSchedule, nextAvailSlot>>

\* `time.Sleep(...) // wait for propagation`: the thread goes on once serve
\* has applied what it received
Sleep(t) ==
    /\ Ready(t, "Sleep")
    /\ servepc = "select"
    /\ at' = [at EXCEPT ![t] = @ + 1]
    /\ UNCHANGED <<pool, more, test, serversUp, thr, got, held, hosts, hostCount, hostAddr,
                   score, serie, poolClosed, closers, servepc, servea,
                   nextSchedule, nextAvailSlot>>

\* ----------------------------------------------------------------- tests
\* TestServiceAddRemove: two goroutines run Add(echo1), Remove(echo1); the
\* test waits for both and calls GetConn
TestServiceAddRemove ==
    [t \in Threads |->
        IF t = 1 THEN <<Op("Wait", 0), Op("GetConn", 0)>>
        ELSE <<Op("Add", 1), Op("Remove", 1)>>]

\* TestServiceRoundRobin, with the third GetConn of the first round
GetRelease == <<Op("GetConn", 0), Op("Release", ReleaseArg(FALSE, HostUp))>>

TestServiceRoundRobin ==
    [t \in Threads |->
        IF t = 1
        THEN <<Op("Add", 1), Op("Add", 2), Op("Add", 3), Op("Sleep", 0)>>
             \o GetRelease \o GetRelease \o GetRelease
             \o <<Op("Remove", 3), Op("Sleep", 0)>> \o GetRelease
             \o <<Op("Add", 3), Op("Sleep", 0)>>
             \o GetRelease \o GetRelease \o GetRelease
        ELSE <<>>]

\* the calls of the generic tests, and their scripts
Ops ==
    {Op("Add", 1), Op("Add", 2), Op("Remove", 1), Op("GetConn", 0),
     Op("Release", ReleaseArg(FALSE, HostUp)),
     Op("Release", ReleaseArg(TRUE, HostUp))}

RECURSIVE Scripts(_)
Scripts(n) ==
    IF n = 0 THEN {<<>>}
    ELSE LET S == Scripts(n - 1) IN
         S \cup {Append(sc, o) : sc \in {x \in S : Len(x) = n - 1}, o \in Ops}

\* two threads with any script of MaxScript calls, the third makes no call
GenericTests ==
    {[t \in Threads |-> IF t = 1 THEN s1 ELSE IF t = 2 THEN s2
                        ELSE <<>>] :
        s1 \in Scripts(MaxScript), s2 \in Scripts(MaxScript)}

\* the pool variables of a service test are at rest
ServiceInit ==
    /\ NewPool("any") /\ ~IdleTimeout /\ ~WaitTimeout
    /\ \/ \E t \in GenericTests, up \in BOOLEAN : NewService(t, up)
       \/ NewService(TestServiceAddRemove, TRUE)
       \/ NewService(TestServiceRoundRobin, TRUE)

ServiceNext ==
    \/ serve
    \/ \E t \in Threads :
          \/ ServiceAdd(t)
          \/ ServiceRemove(t)
          \/ GetConn(t)
          \/ Release(t)
          \/ Wait(t)
          \/ Sleep(t)

ServiceSpec == ServiceInit /\ [][ServiceNext]_vars

\* ------------------------------------------------- RoundRobin, on its own
\* n times the same script
RECURSIVE Times(_, _)
Times(n, sc) == IF n = 0 THEN <<>> ELSE sc \o Times(n - 1, sc)

\* One thread adds the three addresses, gets and releases a connection k
\* times, removes address a, gets and releases four connections, adds a
\* again (a new Host: the slot of the old one stays unused) and gets and
\* releases four more.
RoundRobinTest(k, a) ==
    [t \in Threads |->
        IF t = 1
        THEN <<Op("Add", 1), Op("Add", 2), Op("Add", 3), Op("Sleep", 0)>>
             \o Times(k, GetRelease)
             \o <<Op("Remove", a), Op("Sleep", 0)>> \o Times(4, GetRelease)
             \o <<Op("Add", a), Op("Sleep", 0)>> \o Times(4, GetRelease)
        ELSE <<>>]

RoundRobinTests == {RoundRobinTest(k, a) : k \in 0..NAddrs, a \in Addresses}

RoundRobinInit ==
    /\ NewPool("any") /\ ~IdleTimeout /\ ~WaitTimeout
    /\ \E t \in RoundRobinTests : NewService(t, TRUE)

\* the steps that can occur: the servers are up and no selected pool is
\* closed, so no Pool.Get fails
RoundRobinNext ==
    \/ serve
    \/ \E t \in Threads :
          \/ ServiceAdd(t)
          \/ ServiceRemove(t)
          \/ GetConnCall(t)
          \/ GetConnAgain(t)
          \/ GetConnGet(t)
          \/ Release(t)
          \/ Sleep(t)

RoundRobinSpec == RoundRobinInit /\ [][RoundRobinNext]_vars

\* ---------------------------------------------------- Release, on its own
\* the arguments of a Release call: any error, and any score from below 0
\* to above 1
ReleaseArgs ==
    {ReleaseArg(f, sc) :
        f \in BOOLEAN, sc \in {-1, HostDown, 3, HostUp, ScoreUnit + 1}}

\* One thread adds an address, gets a connection, calls Release on it
\* twice with any arguments, gets a connection again and releases it;
\* a second thread removes the address, or does nothing; a third gets and
\* releases a connection, or does nothing.
ReleaseTest(x, y, z, rm, other) ==
    [t \in Threads |->
        IF t = 1
        THEN <<Op("Add", 1), Op("Sleep", 0), Op("GetConn", 0),
               Op("Release", x), Op("Release", y), Op("GetConn", 0),
               Op("Release", z)>>
        ELSE IF t = 2
        THEN (IF rm THEN <<Op("Remove", 1)>> ELSE <<>>)
        ELSE (IF other THEN GetRelease ELSE <<>>)]

ReleaseTests ==
    {ReleaseTest(x, y, z, rm, other) :
        x \in ReleaseArgs, y \in ReleaseArgs,
        z \in {ReleaseArg(FALSE, HostUp), ReleaseArg(TRUE, 3)},
        rm \in BOOLEAN, other \in BOOLEAN}

ReleaseInit ==
    /\ NewPool("any") /\ ~IdleTimeout /\ ~WaitTimeout
    /\ \E t \in ReleaseTests : NewService(t, TRUE)

ReleaseNext ==
    \/ serve
    \/ \E t \in Threads :
          \/ ServiceAdd(t)
          \/ ServiceRemove(t)
          \/ GetConn(t)
          \/ Release(t)
          \/ Sleep(t)

ReleaseSpec == ReleaseInit /\ [][ReleaseNext]_vars

\* ------------------------------------------------- the score of one Host
\* Fractions: float64 arithmetic is modelled by exact arithmetic on
\* fractions in lowest terms.
RECURSIVE GCD(_, _)
GCD(a, b) == IF b = 0 THEN a ELSE GCD(b, a % b)

Frac(n, d) == LET g == GCD(n, d) IN [num |-> n \div g, den |-> d \div g]
FAdd(x, y) == Frac(x.num * y.den + y.num * x.den, x.den * y.den)
FMul(x, y) == Frac(x.num * y.num, x.den * y.den)

\* serie.score, the mean of the scores rated (a sum of numbers of
\* 1/ScoreUnit over the number of trials)
Mean(sr) == Frac(sr.sum, sr.trials * ScoreUnit)

\* a slot index that forgets the current slot
slotAtZero(slot, i, n) == i % n

\* `t := (h.timeSlot + i) % n`
slotAt(slot, i, n) == (slot + i) % n

\* the loop of computeScore from round i on, with `score` so far: `decay`
\* is i / m, and the slot adds its mean times decay if it has trials,
\* 0.5 times decay if it has none
RECURSIVE computeScoreLoop(_, _, _, _, _)
computeScoreLoop(ts, slot, i, m, sc) ==
    IF i > Len(ts) THEN sc
    ELSE LET sr == ts[slotAt(slot, i, Len(ts)) + 1]
             decay == Frac(i, m)
         IN  computeScoreLoop(ts, slot, i + 1, m,
                 FAdd(sc, FMul(IF sr.trials > 0 THEN Mean(sr) ELSE Frac(1, 2),
                               decay)))

\* Host.computeScore with no Computer: `n := len(h.timeSeries)`,
\* `m := n * (1 + n) / 2`, the loop, and the result for h.score
computeScore(ts, slot) ==
    LET n == Len(ts)
        m == (n * (1 + n)) \div 2
    IN  computeScoreLoop(ts, slot, 1, m, Frac(0, 1))

\* the score of k tenths, if a score is a whole number of tenths
Tenths(k) == IF ScoreUnit % 10 = 0 THEN {(k * ScoreUnit) \div 10} ELSE {}

\* h.rate(score) on the Host, in the current slot
Rate ==
    /\ \E sc \in {HostDown, HostUp} \cup Tenths(3) \cup Tenths(6) :
        /\ timeSeries[timeSlot + 1].trials < MaxTrials
        /\ timeSeries' = [timeSeries EXCEPT ![timeSlot + 1] = rate(@, sc)]
    /\ UNCHANGED <<pool, service, released, puts, bandit, shutdown, timeSlot, memo>>

\* a cursor that does not wrap
nextSlotOn(slot) == slot + 1

\* `h.timeSlot = (h.timeSlot + 1) % cap(h.timeSeries)`
nextSlot(slot) == (slot + 1) % SeriesNum

\* h.decay(), of serve's decay tick: the next slot becomes the current one,
\* a new one while the series has room, else the oldest one, reset
Decay ==
    /\ timeSlot' = nextSlot(timeSlot)
    /\ timeSeries' = IF Len(timeSeries) < SeriesNum
                     THEN Append(timeSeries, NoSerie)
                     ELSE [timeSeries EXCEPT ![timeSlot' + 1] = NoSerie]
    /\ UNCHANGED <<pool, service, released, puts, bandit, shutdown, memo>>

\* h.computeScore(s.ScoreCalculator), of serve's memoize tick
ComputeScore ==
    /\ memo' = computeScore(timeSeries, timeSlot)
    /\ UNCHANGED <<pool, service, released, puts, bandit, shutdown, timeSeries, timeSlot>>

\* a Host of a service that memoizes scores (its strategy is not
\* RoundRobin), rated, decayed and scored in any order
ScoreInit ==
    /\ NewPool("any") /\ ~IdleTimeout /\ ~WaitTimeout
    /\ NewServiceWith(NoTest, TRUE, "EpsilonGreedy")

ScoreNext == Rate \/ Decay \/ ComputeScore

ScoreSpec == ScoreInit /\ [][ScoreNext]_vars

\* ------------------------------------------- the strategies' Select alone
\* float64 of SoftMax.Select: the nearest number with Mantissa significant
\* bits, ties to even; every operation rounds its exact result
RECURSIVE RoundF(_, _)
RoundF(n, d) ==
    IF n = 0 THEN Frac(0, 1)
    ELSE IF n >= d * 2^Mantissa
    THEN LET r == RoundF(n, 2 * d) IN Frac(2 * r.num, r.den)
    ELSE IF n < d * 2^(Mantissa - 1)
    THEN LET r == RoundF(2 * n, d) IN Frac(r.num, 2 * r.den)
    ELSE LET q == n \div d
             r == n % d
             up == 2 * r > d \/ (2 * r = d /\ q % 2 = 1)
         IN  Frac(IF up THEN q + 1 ELSE q, 1)

FAddR(x, y) == LET z == FAdd(x, y) IN RoundF(z.num, z.den)
FDivR(x, y) == RoundF(x.num * y.den, x.den * y.num)
Greater(x, y) == x.num * y.den > y.num * x.den

\* the scores a Host has in these runs: -1 (none computed), 0 and 1
BanditScores == {-1, HostDown, HostUp}

\* `math.Exp(score / float64(s.temperature))` at temperature 0.5: e^0 and
\* e^2
Exp(sc) ==
    CASE sc = HostDown -> RoundF(1, 1)
      [] sc = HostUp -> RoundF(73891, 10000)

\* the values of rand.Float64(): the floats of [0, 1) that are multiples of
\* the smallest step below 1
Draws == {Frac(k, 2^Mantissa) : k \in 0..(2^Mantissa - 1)}

\* the second loop of SoftMax.Select from round i on, with `prob` so far:
\* the first Host if sum is 0, the first Host at which the cumulative
\* probability exceeds p, nil (0) if there is none
RECURSIVE SoftMaxPick(_, _, _, _, _, _)
SoftMaxPick(order, exp, sum, p, i, prob) ==
    IF i > Len(order) THEN 0
    ELSE IF sum.num = 0 THEN order[i]
    ELSE LET next == FAddR(prob, FDivR(exp[order[i]], sum))
         IN  IF Greater(next, p) THEN order[i]
             ELSE SoftMaxPick(order, exp, sum, p, i + 1, next)

\* Select of thread t goes on with locals s, or returns s.host (0 is nil)
SelectGoes(t, s, ends) ==
    IF ends
    THEN /\ got' = [got EXCEPT ![t] = Append(@, s.host)]
         /\ at' = [at EXCEPT ![t] = @ + 1]
         /\ sel' = [sel EXCEPT ![t] = NoSelect]
    ELSE /\ sel' = [sel EXCEPT ![t] = s]
         /\ UNCHANGED <<got, at>>

\* `h := s.BanditStrategy.Select(s.hosts)` of GetConn is entered, the map
\* not being empty.  RoundRobin.Select runs under its lock; EpsilonGreedy
\* draws rand.Float32() and explores, or starts the loop over the scores;
\* SoftMax starts its first loop.
SelectCall(t) ==
    /\ Ready(t, "Select")
    /\ sel[t].pc = ""
    /\ Members # {}
    /\ CASE strategy = "RoundRobin" ->
             \E order \in Orders(Members) :
               LET st == Select(order) IN
               /\ score' = st.score
               /\ nextAvailSlot' = st.nextAvailSlot
               /\ nextSchedule' = Advance(st)
               /\ SelectGoes(t, [sel[t] EXCEPT !.host = st.host], TRUE)
        [] strategy = "EpsilonGreedy" ->
               /\ \/ SelectGoes(t, [sel[t] EXCEPT !.pc = "exploit"], FALSE)
                  \/ \E order \in Orders(Members), n \in 0..(Cardinality(Members) - 1) :
                        SelectGoes(t, [sel[t] EXCEPT !.host = order[n + 1]], TRUE)
               /\ UNCHANGED <<score, nextAvailSlot, nextSchedule>>
        [] strategy = "SoftMax" ->
               /\ SelectGoes(t, [sel[t] EXCEPT !.pc = "exp"], FALSE)
               /\ UNCHANGED <<score, nextAvailSlot, nextSchedule>>
    /\ UNCHANGED <<pool, released, puts, strategy, scoring, shutdown, test, serversUp,
                   thr, held, hosts, hostCount, hostAddr, serie, poolClosed,
                   closers, servepc, servea>>

\* what the rest of Select leaves alone
SelectStep ==
    UNCHANGED <<pool, released, puts, strategy, scoring, shutdown, test, serversUp, thr,
                held, hosts, hostCount, hostAddr, score, serie, poolClosed,
                closers, servepc, servea, nextSchedule, nextAvailSlot>>

\* `max = math.Max(max, score)`
Max(x, y) == IF x > y THEN x ELSE y

\* one round of the exploit loop of EpsilonGreedy.Select, on the Host h
\* the range gives next: `score := h.Score()`,
\* `if max = math.Max(max, score); max == score` then `host = h`; after the
\* last round Select returns
SelectExploit(t) ==
    /\ sel[t].pc = "exploit"
    /\ \E h \in Members \ sel[t].seen :
        LET max == Max(sel[t].max, score[h])
            seen == sel[t].seen \cup {h}
        IN  SelectGoes(t, [sel[t] EXCEPT !.max = max, !.seen = seen,
                                         !.host = IF max = score[h] THEN h ELSE @],
                       seen = Members)
    /\ SelectStep

\* one round of the first loop of SoftMax.Select, on the Host h the range
\* gives next: `score := h.Score()`, `exp[h] = 0` without a score, else the
\* exponential, added to sum
SelectExp(t) ==
    /\ sel[t].pc = "exp"
    /\ \E h \in Members \ sel[t].seen :
        LET seen == sel[t].seen \cup {h} IN
        SelectGoes(t, [sel[t] EXCEPT !.exp[h] = IF score[h] < 0 THEN Frac(0, 1)
                                                ELSE Exp(score[h]),
                                     !.sum = IF score[h] < 0 THEN @
                                             ELSE FAddR(@, Exp(score[h])),
                                     !.seen = seen,
                                     !.pc = IF seen = Members THEN "pick" ELSE @],
                   FALSE)
    /\ SelectStep

\* `p := rand.Float64()` and the second loop of SoftMax.Select, a new range
\* over the map, and the return
SelectPick(t) ==
    /\ sel[t].pc = "pick"
    /\ \E p \in Draws, order \in Orders(Members) :
        SelectGoes(t, [sel[t] EXCEPT !.host = SoftMaxPick(order, sel[t].exp,
                                                         sel[t].sum, p, 1,
                                                         Frac(0, 1))],
                   TRUE)
    /\ SelectStep

\* serve's memoize tick, which a service starts unless its strategy is
\* RoundRobin: h.computeScore stores the score of a Host, some number of
\* [0, 1], while Selects run
Memoize ==
    /\ strategy # "RoundRobin"
    /\ \E h \in Members, sc \in BanditScores \ {-1} :
        /\ score[h] # sc
        /\ score' = [score EXCEPT ![h] = sc]
        /\ sel' = [t \in Threads |->
                     IF sel[t].pc = "exploit" /\ h \in sel[t].seen
                     THEN [sel[t] EXCEPT !.stale = TRUE] ELSE sel[t]]
    /\ UNCHANGED <<pool, released, puts, strategy, scoring, shutdown, test,
                   serversUp, at, thr, got, held, hosts, hostCount, hostAddr,
                   serie, poolClosed, closers, servepc, servea, nextSchedule,
                   nextAvailSlot>>

\* two threads make one Select each
BanditTest ==
    [th \in Threads |-> IF th <= 2 THEN <<Op("Select", 0)>> ELSE <<>>]

\* a service of one to NAddrs hosts with any of the three strategies; the
\* Hosts of a RoundRobin have no slot yet, the others have any scores
BanditInit ==
    /\ NewPool("any") /\ ~IdleTimeout /\ ~WaitTimeout
    /\ strategy \in {"RoundRobin", "EpsilonGreedy", "SoftMax"}
    /\ sel = [th \in Threads |-> NoSelect]
    /\ released = [th \in Threads |-> <<>>]
    /\ puts = [h \in HostIds |-> <<>>]
    /\ timeSeries = <<NoSerie>>
    /\ timeSlot = 0
    /\ memo = NoScore
    /\ stop = FALSE
    /\ deadline = [h \in HostIds |-> ""]
    /\ test = BanditTest
    /\ serversUp = TRUE
    /\ at = [th \in Threads |-> 1]
    /\ thr = [th \in Threads |-> Idle]
    /\ got = [th \in Threads |-> <<>>]
    /\ held = [th \in Threads |-> 0]
    /\ hostCount \in 1..NAddrs
    /\ hosts = [a \in Addresses |-> IF a <= hostCount THEN a ELSE 0]
    /\ hostAddr = [h \in HostIds |-> IF h <= hostCount THEN h ELSE 0]
    /\ score \in [HostIds -> BanditScores]
    /\ \A h \in HostIds :
          (strategy = "RoundRobin" \/ h > hostCount) => score[h] = -1
    /\ serie = [h \in HostIds |-> NoSerie]
    /\ poolClosed = [h \in HostIds |-> FALSE]
    /\ closers = {}
    /\ servepc = "select"
    /\ servea = 0
    /\ nextSchedule = 0
    /\ nextAvailSlot = 0

BanditNext ==
    \/ \E t \in Threads :
        \/ SelectCall(t)
        \/ SelectExploit(t)
        \/ SelectExp(t)
        \/ SelectPick(t)
    \/ Memoize

BanditSpec == BanditInit /\ [][BanditNext]_vars

\* ------------------------------------------- a Host deleted, and its pool
\* The pool of the Host of address 1 is the pool above.  The application
\* takes connections from it and may give them back; the service deletes
\* the Host, on Remove or on Close.

\* Service.Close: `close(s.stop)`
ServiceClose(t) ==
    /\ Ready(t, "Close")
    /\ stop' = TRUE
    /\ at' = [at EXCEPT ![t] = @ + 1]
    /\ UNCHANGED <<pool, released, puts, bandit, scoring, deadline, test,
                   serversUp, thr, got, held, hosts, hostCount, hostAddr, score,
                   serie, poolClosed, closers, servepc, servea, nextSchedule,
                   nextAvailSlot>>

\* serve's `case <-s.stop`: s.deleteHost(a) for the next address of the
\* map, or `return` after the last
serveStop ==
    /\ stop
    /\ servepc = "select"
    /\ IF Members = {}
       THEN servepc' = "stopped" /\ UNCHANGED <<hosts, closers>>
       ELSE /\ \E a \in {b \in Addresses : hosts[b] # 0} :
                 /\ hosts' = [hosts EXCEPT ![a] = 0]
                 /\ closers' = closers \cup {hosts[a]}
            /\ UNCHANGED servepc
    /\ UNCHANGED <<pool, more, test, serversUp, at, thr, got, held, hostCount,
                   hostAddr, score, serie, poolClosed, servea, nextSchedule,
                   nextAvailSlot>>

\* the goroutine of deleteHost: `time.AfterFunc(s.CloseDeadline, ...)`
deleteHostAfterFunc ==
    /\ \E h \in closers :
        /\ deadline[h] = ""
        /\ deadline' = [deadline EXCEPT ![h] = "armed"]
    /\ UNCHANGED <<pool, service, released, puts, bandit, scoring, stop>>

\* the goroutine of deleteHost: `h.pool.Close()` is called and entered
deleteHostClose ==
    /\ Running
    /\ \E h \in closers :
        /\ deadline[h] # ""
        /\ closers' = closers \ {h}
        /\ poolClosed' = [poolClosed EXCEPT ![h] = TRUE]
    /\ CloseEnter
    /\ UNCHANGED <<config, more, poolv, connv, gcpc, spawnv, out, histv, panicked,
                   test, serversUp, at, thr, got, held, hosts, hostCount,
                   hostAddr, score, serie, servepc, servea, nextSchedule,
                   nextAvailSlot>>

\* the timer of CloseDeadline fires: its function calls
\* `h.pool.ForceClose()`
deadlineFires ==
    /\ Running
    /\ \E h \in HostIds :
        /\ deadline[h] = "armed"
        /\ deadline' = [deadline EXCEPT ![h] = "fired"]
    /\ ForceCloseEnter
    /\ UNCHANGED <<config, service, released, puts, bandit, scoring, stop,
                   inbound, connsCount, conns, connsClosed, gc, gcCtl, connv,
                   gcpc, spawnv, out, ops, closeNil, panicked>>

\* the application removes address 1, or closes the service
DeleteHostTests ==
    {[th \in Threads |-> IF th = 1 THEN <<Op(op, 1)>> ELSE <<>>] :
        op \in {"Remove", "Close"}}

\* a service with the Host of address 1, whose pool has no idle timeout
\* and no wait timeout
DeleteHostInit ==
    /\ NewPool("any") /\ ~IdleTimeout /\ ~WaitTimeout
    /\ strategy = "RoundRobin"
    /\ sel = [th \in Threads |-> NoSelect]
    /\ released = [th \in Threads |-> <<>>]
    /\ puts = [h \in HostIds |-> <<>>]
    /\ timeSeries = <<NoSerie>>
    /\ timeSlot = 0
    /\ memo = NoScore
    /\ stop = FALSE
    /\ deadline = [h \in HostIds |-> ""]
    /\ test \in DeleteHostTests
    /\ serversUp = TRUE
    /\ at = [th \in Threads |-> 1]
    /\ thr = [th \in Threads |-> Idle]
    /\ got = [th \in Threads |-> <<>>]
    /\ held = [th \in Threads |-> 0]
    /\ hostCount = 1
    /\ hosts = [a \in Addresses |-> IF a = 1 THEN 1 ELSE 0]
    /\ hostAddr = [h \in HostIds |-> IF h = 1 THEN 1 ELSE 0]
    /\ score = [h \in HostIds |-> -1]
    /\ serie = [h \in HostIds |-> NoSerie]
    /\ poolClosed = [h \in HostIds |-> FALSE]
    /\ closers = {}
    /\ servepc = "select"
    /\ servea = 0
    /\ nextSchedule = 0
    /\ nextAvailSlot = 0

\* the application calls Get or Put on the pool of the Host
HostGet == ops < MaxTaken /\ GetCall
HostPut == ops < MaxTaken /\ PutCall

\* the steps of the goroutines of the pool and of the calls under way
PoolRun ==
    \/ collect \/ newConn \/ return
    \/ GetAgain \/ GetSelect \/ GetNew \/ GetWait \/ GetGotOne \/ GetCollect
    \/ PutCollect \/ PutInbound \/ PutSend
    \/ CloseSwap \/ CloseSetClosing \/ CloseWakeup \/ CloseRange \/ CloseCollect
    \/ ForceCloseConns \/ ForceCloseKill

\* the steps of the service's goroutines
DeleteHostRun ==
    \/ deleteHost
    \/ serveStop
    \/ deleteHostAfterFunc
    \/ deleteHostClose
    \/ deadlineFires

DeleteHostNext ==
    \/ HostGet
    \/ HostPut
    \/ PoolRun
    \/ \E t \in Threads : ServiceRemove(t) \/ ServiceClose(t)
    \/ DeleteHostRun

\* The Go scheduler runs a goroutine that can take a step, a call of the
\* application's script is made, and a timer that is armed fires.
DeleteHostSpec ==
    /\ DeleteHostInit
    /\ [][DeleteHostNext]_vars
    /\ WF_vars(collect) /\ WF_vars(newConn) /\ WF_vars(return)
    /\ WF_vars(GetAgain \/ GetSelect \/ GetNew \/ GetWait \/ GetGotOne \/ GetCollect)
    /\ WF_vars(PutCollect \/ PutInbound \/ PutSend)
    /\ WF_vars(CloseSwap \/ CloseSetClosing \/ CloseWakeup \/ CloseRange \/ CloseCollect)
    /\ WF_vars(ForceCloseConns \/ ForceCloseKill)
    /\ WF_vars(\E t \in Threads : ServiceRemove(t) \/ ServiceClose(t))
    /\ WF_vars(deleteHost \/ serveStop)
    /\ WF_vars(deleteHostAfterFunc \/ deleteHostClose)
    /\ WF_vars(deadlineFires)

\* ================================================================== claims
Range(q) == {q[i] : i \in DOMAIN q}
Records == BagToSet(calls)
Returning(op, v) == \E r \in Records : At(r, op, "ret") /\ r.ret = v

\* a call made in this step: its record is new in calls'
Called(r) == ops' = ops + 1 /\ CopiesIn(r, calls') > CopiesIn(r, calls)

\* ---------------------------------------------------------------------- C1
\* a spawner's increment that finds the counter at MaxConns: it gives up,
\* Driver.Dial is not called and no connection is on its way
SpawnerGivesUp ==
    (pending' < pending /\ connsCount = MaxConns)
        => /\ dialed' = dialed
           /\ connsCount' = connsCount
           /\ spawners' = spawners

\* C1: under every interleaving of spawners, the GC and the callers the
\* connection counter stays within 0..MaxConns, and a spawner that finds it
\* at MaxConns gives up without dialing.
C1_CounterBounded ==
    /\ [](0 <= ActiveConns /\ ActiveConns <= MaxConns)
    /\ [][SpawnerGivesUp]_vars

\* MaxConns connections are checked out, a further Get waits, and the
\* spawner it launched has run and left nothing behind
C1_Witness ==
    /\ status = active
    /\ ActiveConns = MaxConns /\ Cardinality(out) = MaxConns
    /\ pending = 0 /\ spawners = EmptyBag
    /\ \E r \in Records : At(r, "Get", "wait")

\* ---------------------------------------------------------------------- C2
\* what collect does with the entry at the head of the GC channel
GCClosesOpenOnly ==
    (gcpc = "select" /\ gc # <<>> /\ gc' = Tail(gc)) =>
        \A c \in ConnIds :
            driverClosed'[c] =
                IF Head(gc) = c /\ ~isClosed[c]
                THEN driverClosed[c] + 1 ELSE driverClosed[c]

\* C2: Driver.Close is invoked at most once per connection, also when the
\* connection is enqueued in the GC channel more than once; the GC closes an
\* entry that is non-nil and not yet closed, and skips only the closed ones.
C2_DriverCloseOnce ==
    /\ [](\A c \in ConnIds : driverClosed[c] <= 1)
    /\ [][GCClosesOpenOnly]_vars

\* a connection the GC has closed is in the GC channel again
C2_Witness ==
    \E c \in ConnIds : driverClosed[c] = 1 /\ isClosed[c] /\ c \in Range(gc)

\* ---------------------------------------------------------------------- C3
\* C3: on a pool whose status is CLOSED every Get and every Put that is
\* called returns ErrPoolClosed at once, and the call does not panic.
C3_ClosedPoolRefuses ==
    [][status = closed =>
        /\ \A r \in BagToSet(calls') :
              (Called(r) /\ r.op \in {"Get", "Put"})
                  => r.pc = "ret" /\ r.ret = "closed"
        /\ (ops' = ops + 1 => panicked' = panicked)]_vars

\* a Put of a connection the caller holds was called on the CLOSED pool and
\* is returning ErrPoolClosed
C3_Witness ==
    /\ status = closed /\ panicked = ""
    /\ \E r \in Records : At(r, "Put", "ret") /\ r.ret = "closed" /\ r.c # Nil

\* ---------------------------------------------------------------------- C4
\* C4: the status only moves forward, ACTIVE to CLOSING to CLOSED: no step
\* lowers it, whatever the interleaving of Close, ForceClose and the GC.
C4_StatusMonotone ==
    [][status' >= status /\ status' \in {active, closing, closed}]_vars

\* a Close that passed its check is about to run set(closing) on a pool
\* that is CLOSED already
C4_Witness ==
    status = closed /\ \E r \in Records : At(r, "Close", "closing")

\* ---------------------------------------------------------------------- C5
AllDialedClosed == \A c \in 1..dialed : driverClosed[c] >= 1

\* C5: when Close returns nil and ForceClose was never called, the status is
\* CLOSED and Driver.Close has been invoked on every connection the pool
\* dialed; this stays so afterwards.
C5_CloseNilDrained ==
    ((Returning("Close", "nil") \/ closeNil > 0) /\ ~forceCalled)
        => status = closed /\ AllDialedClosed

\* Close returns nil on a pool that dialed, with no ForceClose
C5_Witness ==
    /\ Returning("Close", "nil") /\ ~forceCalled
    /\ dialed >= 1 /\ driverClosed[1] = 1


\* ------------------------------------------------------------- quiescence
\* the steps of the calls in flight and of the pool's goroutines: every
\* action but the start of a new call
Internal ==
    \/ collect \/ timerExpire \/ timerCollect \/ newConn \/ return
    \/ GetAgain \/ GetSelect \/ GetNew \/ GetWait \/ GetGotOne \/ GetCollect
    \/ PutCollect \/ PutInbound \/ PutSend
    \/ CloseSwap \/ CloseSetClosing \/ CloseWakeup \/ CloseRange \/ CloseCollect
    \/ ForceCloseConns \/ ForceCloseKill

\* nothing in flight can move: what has not returned by now never returns
Quiescent == ~ENABLED Internal

InFlight(op) == \E r \in Records : r.op = op

\* the Close calls that passed the status check
ClosePassed ==
    closeNil + Cardinality({r \in Records : r.op = "Close" /\ r.ret # "closed"})

\* ---------------------------------------------------------------------- C6
\* Once nothing can move after a single Close (no ForceClose, every
\* connection handed out was Put back): nothing panicked, the pool is CLOSED,
\* Driver.Close ran on every dialed connection, and every call has returned,
\* the Close with nil.
Drained ==
    (ClosePassed = 1 /\ ~forceCalled /\ out = {} /\ Quiescent)
        => /\ panicked = ""
           /\ status = closed
           /\ AllDialedClosed
           /\ calls = EmptyBag
           /\ closeNil = 1

\* the results of the Gets that return once a Close is under way
RacingGetReturns(results) ==
    \A r \in Records :
        (At(r, "Get", "ret") /\ ClosePassed >= 1 /\ ~forceCalled)
            => r.ret \in results

\* C6: no connection is lost when Close races with Puts and spawners: with
\* no ForceClose and every connection Put back, the pool drains to CLOSED,
\* every connection is closed and Close returns nil; a racing Get returns a
\* connection or ErrPoolClosed (ErrPoolTimeout is let through as well when
\* the pool has a WaitTimeout, which the claim does not mention).
C6_NoConnLost ==
    /\ Drained
    /\ RacingGetReturns({"conn", "closed", "timeout"})
    /\ (~WaitTimeout => RacingGetReturns({"conn", "closed"}))

\* ---------------------------------------------------------------------- C7
\* C7 as stated: Put never panics, that is, no Put sends on the idle channel
\* after the channel was closed, in any interleaving with Close and
\* ForceClose.
C7_PutNeverPanics == panicked # "Put"

\* ---------------------------------------------------------------------- C8
\* C8: after a ForceClose called on a CLOSING pool with a connection
\* checked out the status is CLOSED, and once nothing can move ForceClose
\* has returned true, the GC has stopped and no Close is left in its loop
\* over the idle channel.
C8_ForceCloseInterrupts ==
    interrupted # "no" =>
        /\ status = closed
        /\ Quiescent => /\ interrupted = "returned"
                        /\ gcpc = "exit"
                        /\ ~\E r \in Records : At(r, "Close", "range")

\* ---------------------------------------------------------------------- C9
\* C9 as stated: over all the Close calls made on the pool, at most one
\* returns nil.
C9_OneCloseNil ==
    closeNil + Cardinality({r \in Records : At(r, "Close", "ret") /\ r.ret = "nil"}) <= 1


\* --------------------------------------------------------------------- C10
\* the pool is ACTIVE, the counter is at MaxConns and every connection is
\* checked out
Saturated ==
    status = active /\ ActiveConns = MaxConns /\ Cardinality(out) = MaxConns

\* C10: on an ACTIVE pool whose counter is at MaxConns with every connection
\* checked out, as long as no Put is made, no connection is created (no
\* spawner gets past its increment, Driver.Dial is not called, the counter
\* stays), a Get that gets a result gets ErrPoolTimeout (which takes a
\* WaitTimeout > 0), and with a WaitTimeout > 0 no Get stays blocked.
C10_SaturatedGetTimesOut ==
    /\ [][Saturated =>
            /\ dialed' = dialed /\ spawners' = spawners
            /\ connsCount' = connsCount
            /\ \A r \in BagToSet(calls') :
                  (At(r, "Get", "ret") /\ CopiesIn(r, calls') > CopiesIn(r, calls))
                      => r.ret = "timeout" /\ WaitTimeout]_vars
    /\ []((Saturated /\ WaitTimeout /\ Quiescent) => ~InFlight("Get"))

\* with MaxConns connections checked out a further Get, whose spawner has
\* run, returns ErrPoolTimeout
C10_Witness ==
    /\ Saturated /\ WaitTimeout
    /\ pending = 0 /\ spawners = EmptyBag
    /\ Returning("Get", "timeout")


\* --------------------------------------------------------------------- C11
\* call r is the only call in flight on an ACTIVE pool, and no spawner is
\* launched or running
Alone(r) ==
    /\ calls = SetToBag({r})
    /\ pending = 0 /\ spawners = EmptyBag
    /\ status = active /\ panicked = ""

\* the step of the only call in flight, r, leaves q as the only call
Becomes(r, q) == calls' = SetToBag({q})

\* the steps of a Put of a healthy connection and of the Get that follows
\* it: the Put reads the idle channel as its inbound channel and sends the
\* connection there; the Get dequeues the connection at the head without
\* launching a spawner, and returns it when its timer has not expired and
\* Driver.TestOnBorrow gave no fatal error
RoundTripStep(r) ==
    /\ At(r, "Put", "inbound") =>
           Becomes(r, [Goto(r, "send") EXCEPT !.ch = "conns"])
    /\ (At(r, "Put", "send") /\ conns = <<>>) =>
           conns' = <<r.c>> /\ Becomes(r, Ret(r, "nil"))
    /\ (At(r, "Get", "select") /\ conns # <<>>) =>
           /\ Becomes(r, [Goto(r, "gotone") EXCEPT !.c = Head(conns)])
           /\ conns' = Tail(conns)
           /\ pending' = pending /\ dialed' = dialed
    /\ (At(r, "Get", "gotone") /\ timer[r.c] # "fired" /\ timer[r.c] # "off") =>
           /\ \E err \in {"nil", "temporary"} :
                  Becomes(r, [Ret(r, "conn") EXCEPT !.err = err])
              \/ Becomes(r, [Goto(r, "collect") EXCEPT !.err = "fatal"])
           /\ dialed' = dialed

\* C11: on an ACTIVE pool with an empty idle channel and nothing else in
\* flight, a Put of a connection with a nil or temporary error leaves the
\* connection alone in the idle channel, and the Get that finds it there
\* returns this very connection without dialing, unless its idle timer
\* expired or Driver.TestOnBorrow failed fatally.
C11_PutGetRoundTrip ==
    /\ [][\A r \in Records : (Alone(r) /\ calls' # calls /\ ops' = ops) => RoundTripStep(r)]_vars
    /\ [](\A r \in Records :
            (Alone(r) /\ At(r, "Put", "ret") /\ r.ret = "nil" /\ r.ch = "conns")
                => r.c \in Range(conns))

\* Get, Put, Get in a row on a pool with an IdleTimeout: the second Get is
\* returning the connection of the first, the only one ever dialed
C11_Witness ==
    /\ IdleTimeout /\ ops = 3 /\ dialed = 1 /\ conns = <<>>
    /\ \E r \in Records : Alone(r) /\ At(r, "Get", "ret") /\ r.ret = "conn" /\ r.c = 1


\* ------------------------------------------------------------- condemnation
\* connection c is on its way to the GC or past it: it is closed, in the GC
\* channel, held by a call at its `p.gc <- c`, or its idle timer has expired
Condemned(c) ==
    \/ isClosed[c]
    \/ c \in Range(gc)
    \/ timer[c] = "fired"
    \/ \E r \in Records : r.pc = "collect" /\ r.c = c

\* a condemned connection stays condemned
CondemnedForGood == \A c \in ConnIds : Condemned(c) => Condemned(c)'

\* no caller holds a condemned connection and no Get is returning one
NoneHandedOut ==
    \A c \in ConnIds :
        Condemned(c) =>
            /\ c \notin out
            /\ ~\E r \in Records : At(r, "Get", "ret") /\ r.ret = "conn" /\ r.c = c

\* --------------------------------------------------------------------- C12
\* a Put called with a fatal error on a pool that is not CLOSED goes to its
\* `p.gc <- c` and does not arm the idle timer; its next step appends the
\* connection to the GC channel and leaves the idle channel alone
FatalPutToGC ==
    /\ \A r \in BagToSet(calls') :
           (Called(r) /\ r.op = "Put" /\ r.err = "fatal" /\ r.ret = "")
               => r.pc = "collect" /\ timer' = timer
    /\ \A r \in Records :
           (At(r, "Put", "collect") /\ CopiesIn(r, calls') < CopiesIn(r, calls))
               => gc' = Append(gc, r.c) /\ conns' = conns

\* C12: a connection released with a fatal error is routed to the GC and
\* never returned by a later Get: from the Put's call on it is condemned,
\* it stays so, and no Get returns a condemned connection.
C12_FatalPutDiscarded ==
    /\ [][FatalPutToGC]_vars
    /\ [][CondemnedForGood]_vars
    /\ []NoneHandedOut

\* a Put called with a fatal error on an ACTIVE pool is returning nil, its
\* connection is in the GC channel and not in the idle channel
C12_Witness ==
    /\ status = active
    /\ \E r \in Records :
          /\ At(r, "Put", "ret") /\ r.err = "fatal" /\ r.ret = "nil"
          /\ r.c \in Range(gc) /\ r.c \notin Range(conns)


\* --------------------------------------------------------------------- C13
\* the idle timer of c has expired: its goroutine is at `p.gc <- c` or past it
Expired(c) == timer[c] = "fired" \/ (timer[c] = "off" /\ (c \in Range(gc) \/ isClosed[c]))

\* a Get that holds a dequeued connection whose timer can no longer be
\* stopped starts over: it drops the connection, without TestOnBorrow and
\* without handing anything out
ExpiredStartsOver ==
    \A r \in Records :
        (At(r, "Get", "gotone") /\ Expired(r.c)
         /\ CopiesIn(r, calls') < CopiesIn(r, calls))
            => /\ calls' = Upd(calls, r, [Goto(r, "again") EXCEPT !.c = Nil])
               /\ out' = out /\ timer' = timer /\ gc' = gc

\* C13: once the idle timer of an idle connection has expired, the
\* connection being pushed to the GC while it is still in the idle channel,
\* no Get returns it: the Get that dequeues it fails to disarm the timer and
\* starts over, and the connection stays condemned.
C13_ExpiredNeverReturned ==
    /\ [][ExpiredStartsOver]_vars
    /\ [](\A c \in ConnIds : Expired(c) => Condemned(c))
    /\ [][CondemnedForGood]_vars
    /\ []NoneHandedOut

\* Get, Put, Get: the second Get has dequeued the connection, whose timer
\* expired in the idle channel and whose goroutine has pushed it to the GC
C13_Witness ==
    /\ ops = 3 /\ dialed = 1 /\ timer[1] = "off" /\ 1 \in Range(gc)
    /\ \E r \in Records : Alone(r) /\ At(r, "Get", "gotone") /\ r.c = 1


\* --------------------------------------------------------------------- C14
\* what a Get does with the verdict of Driver.TestOnBorrow: it returns the
\* connection only on no error or a temporary one, and on a fatal one it is
\* at its `p.gc <- c` with the connection
BorrowVerdict ==
    \A r \in Records :
        r.op = "Get" =>
            /\ (r.pc = "ret" /\ r.ret = "conn") => r.err \in {"nil", "temporary"}
            /\ r.err \in {"nil", "temporary"}
                   => r.pc = "ret" /\ r.ret = "conn" /\ r.c # Nil
            /\ r.err = "fatal" => r.pc = "collect" /\ r.c # Nil
            /\ r.pc = "collect" => r.err = "fatal"

\* the Get at its `p.gc <- c` appends the connection to the GC channel and
\* starts over with nothing in hand
BorrowFailedStartsOver ==
    \A r \in Records :
        (At(r, "Get", "collect") /\ CopiesIn(r, calls') < CopiesIn(r, calls))
            => /\ gc' = Append(gc, r.c)
               /\ calls' = Upd(calls, r, [Goto(r, "again") EXCEPT !.c = Nil, !.err = ""])
               /\ out' = out /\ conns' = conns

\* C14: Get never returns a connection on which Driver.TestOnBorrow failed
\* with a non-temporary error during that Get: the connection is pushed to
\* the GC, Get starts over, and no later Get returns it; on a temporary
\* error the connection is returned.
C14_BorrowTested ==
    /\ []BorrowVerdict
    /\ [][BorrowFailedStartsOver]_vars
    /\ [][CondemnedForGood]_vars
    /\ []NoneHandedOut

\* the one Get made so far, on a pool without idle timers, has pushed the
\* connection it dequeued to the GC and starts over
C14_Witness ==
    /\ ~IdleTimeout /\ ops = 1 /\ gc = <<1>>
    /\ \E r \in Records : At(r, "Get", "again")


\* --------------------------------------------------------------------- C15
\* C15 as stated: with Driver.TestOnBorrow failing fatally on every
\* connection and Driver.Dial succeeding, every Get ends: from some moment
\* on no Get is in flight (but for one whose spawner has yet to run).
C15_GetGivesUp == <>[](InFlight("Get") => pending > 0)


\* --------------------------------------------------------------------- C16
\* a spawner that used up its dial attempts sends nil to the GC channel and
\* is gone, the counter still holding its slot; collect's receive of the
\* nil gives the slot back
SentinelGivesSlotBack ==
    /\ \A sp \in BagToSet(spawners) :
           (sp.pc = "failed" /\ CopiesIn(sp, spawners') < CopiesIn(sp, spawners))
               => gc' = Append(gc, Nil) /\ connsCount' = connsCount
    /\ (gc # <<>> /\ gc' = Tail(gc) /\ Head(gc) = Nil)
           => connsCount' = connsCount - 1

\* C16: with a driver whose every Dial fails, a Get that returns returns
\* ErrPoolTimeout, which takes a WaitTimeout, and with a WaitTimeout no Get
\* stays blocked; every slot of the counter is held by a spawner that has
\* yet to send its nil sentinel or by a sentinel in the GC channel, and once
\* nothing can move the counter is back at zero.
C16_FailedDialTimesOut ==
    /\ [](\A r \in Records : At(r, "Get", "ret") => r.ret = "timeout" /\ WaitTimeout)
    /\ []((WaitTimeout /\ Quiescent) => ~InFlight("Get"))
    /\ [](connsCount = BagCardinality(spawners) + Len(gc))
    /\ [](Quiescent => connsCount = 0)
    /\ [][SentinelGivesSlotBack]_vars

\* the one Get made so far returns ErrPoolTimeout; the spawner it launched
\* has failed to dial and the GC has taken its sentinel
C16_Witness ==
    /\ ops = 1 /\ Returning("Get", "timeout")
    /\ pending = 0 /\ spawners = EmptyBag /\ gc = <<>> /\ gcpc = "top"
    /\ connsCount = 0 /\ dialed = 0


\* --------------------------------------------------------------------- C17
\* a Pool.Get that fails sends GetConn to its h.rate(HostDown), which adds
\* one trial and no HostUp to the serie of the selected Host and to no
\* other; nothing else but a Release rates a Host
OneHostDownPerFailure ==
    /\ \A t \in Threads :
        /\ (thr[t].pc = "get" /\ thr'[t] # thr[t]) =>
               /\ serie' = serie
               /\ \/ thr'[t] = [thr[t] EXCEPT !.pc = "rate"]
                  \/ thr'[t] = Idle /\ held'[t] = thr[t].h
        /\ (thr[t].pc = "rate" /\ thr'[t] # thr[t]) =>
               serie' = [serie EXCEPT ![thr[t].h] =
                            [trials |-> @.trials + 1, sum |-> @.sum]]
    /\ \A h \in HostIds :
          serie'[h] # serie[h] =>
              \E t \in Threads :
                  \/ thr[t].pc = "rate" /\ thr[t].h = h /\ thr'[t] # thr[t]
                  \/ held[t] = h /\ held'[t] = 0

\* C17 as stated: one GetConn call selects a Host and calls Pool.Get at most
\* GetAttempts times, and each failed Pool.Get records exactly one HostDown
\* rating on the Host selected for the attempt.
C17_AtMostGetAttempts ==
    /\ [](\A t \in Threads : thr[t].tries <= GetAttempts)
    /\ [][OneHostDownPerFailure]_vars

\* --------------------------------------------------------------------- C18
\* GetConn's look at an empty map: the strategy is left alone, and the call
\* retries while attempts < GetAttempts and returns ErrNoHostAvailable after
EmptyMapStep ==
    \A t \in Threads :
        (thr[t].pc = "again" /\ Members = {} /\ thr'[t] # thr[t]) =>
            /\ score' = score
            /\ nextSchedule' = nextSchedule /\ nextAvailSlot' = nextAvailSlot
            /\ IF thr[t].attempts < GetAttempts
               THEN thr'[t] = [thr[t] EXCEPT !.attempts = @ + 1] /\ got' = got
               ELSE thr'[t] = Idle /\ got'[t] = Append(got[t], ErrNoHostAvailable)

\* C18: a GetConn that finds the host map empty does not call the strategy;
\* it looks again at most GetAttempts times, is never blocked there, and
\* returns ErrNoHostAvailable; Select is never given an empty map (a Host is
\* selected whenever Pool.Get is called).
C18_NoHostAvailable ==
    /\ [][EmptyMapStep]_vars
    /\ [](\A t \in Threads :
            /\ thr[t].attempts <= GetAttempts
            /\ (thr[t].pc = "again" /\ Members = {}) => ENABLED GetConnAgain(t)
            /\ thr[t].pc \in {"get", "rate"} => thr[t].h \in Members \cup closers
                                                   \cup {h \in HostIds : poolClosed[h]})

\* a GetConn has returned ErrNoHostAvailable on a service that never had a
\* host
C18_Witness ==
    hostCount = 0 /\ servepc = "select" /\ \E t \in Threads : got[t] = <<ErrNoHostAvailable>>

\* --------------------------------------------------------------------- C19
\* C19 as stated: in TestServiceAddRemove, once the two goroutines that call
\* Add(a) and then Remove(a) are through, the host map ends up empty and the
\* GetConn of the test returns ErrNoHostAvailable.
C19_AddRemoveLeavesNoHost ==
    test = TestServiceAddRemove =>
        /\ \A i \in DOMAIN got[1] : got[1][i] = ErrNoHostAvailable
        /\ ((\A t \in Threads : Finished(t)) /\ servepc = "select") => Members = {}

\* --------------------------------------------------------------------- C20
\* the addresses TestServiceRoundRobin is to get, in this order
RoundRobinOrder == <<1, 2, 3, 1, 2, 3, 1>>

\* C20 as stated: with the three addresses added in order, the GetConn
\* calls of TestServiceRoundRobin return the first, second and third
\* address, after the removal of the third the first, and after its return
\* the second, the third and the first.
C20_RoundRobinEndToEnd ==
    test = TestServiceRoundRobin =>
        /\ Len(got[1]) <= Len(RoundRobinOrder)
        /\ \A i \in DOMAIN got[1] : got[1][i] = RoundRobinOrder[i]

\* --------------------------------------------------------------------- C28
\* a Put of a healthy connection, or a spawner, that loads the inbound handle
\* while it designates the GC channel keeps that channel, and its send
\* appends the connection to the GC channel and leaves the idle channel alone
ReadAfterSwapLandsInGC ==
    /\ \A r \in Records :
        /\ (At(r, "Put", "inbound") /\ inbound = "gc"
                /\ CopiesIn(r, calls') < CopiesIn(r, calls)) =>
               CopiesIn([Goto(r, "send") EXCEPT !.ch = "gc"], calls') >
                   CopiesIn([Goto(r, "send") EXCEPT !.ch = "gc"], calls)
        /\ (At(r, "Put", "send") /\ r.ch = "gc"
                /\ CopiesIn(r, calls') < CopiesIn(r, calls)) =>
               gc' = Append(gc, r.c) /\ conns' = conns
    /\ \A s \in BagToSet(spawners) :
        /\ (s.pc = "inbound" /\ inbound = "gc"
                /\ CopiesIn(s, spawners') < CopiesIn(s, spawners)) =>
               CopiesIn(Spawner("send", s.c, "gc"), spawners') >
                   CopiesIn(Spawner("send", s.c, "gc"), spawners)
        /\ (s.pc = "send" /\ s.ch = "gc"
                /\ CopiesIn(s, spawners') < CopiesIn(s, spawners)) =>
               gc' = Append(gc, s.c) /\ conns' = conns

\* C28: whenever the status is CLOSING or CLOSED the inbound handle
\* designates the GC channel; once it designates the GC channel it never
\* designates the idle channel again; every Put of a healthy connection and
\* every spawner that reads the handle after the swap sends to the GC
\* channel.
C28_InboundIsGCOnceClosing ==
    /\ [](is(status, closing) => inbound = "gc")
    /\ [][inbound = "gc" => inbound' = "gc"]_vars
    /\ [][ReadAfterSwapLandsInGC]_vars

\* on a pool being closed, a Put of a healthy connection has read the
\* swapped handle and its connection is in the GC channel, and a spawner
\* has read the swapped handle too
C28_Witness ==
    /\ is(status, closing)
    /\ \E r \in Records :
          /\ At(r, "Put", "ret") /\ r.ret = "nil" /\ r.err = "" /\ r.ch = "gc"
          /\ r.c \in Range(gc)

\* --------------------------------------------------------------------- C29
\* C29 as stated: in every reachable state with the status ACTIVE, those in
\* the middle of a Close included, the inbound handle designates the idle
\* channel.
C29_ActiveInboundIdle == status = active => inbound = "conns"

\* --------------------------------------------------------------------- C30
\* the places of a connection; a connection a goroutine has in hand (a Get
\* that received it, a Put or a Close that has yet to send it, a spawner) is
\* counted as checked out
InIdle(c) == c \in Range(conns)
InGC(c) == c \in Range(gc)
CheckedOut(c) ==
    \/ c \in out
    \/ \E r \in Records : r.c = c /\ (r.op = "Get" \/ r.pc # "ret")
    \/ \E s \in BagToSet(spawners) : s.c = c
Places(c) ==
    {p \in {"idle", "gc", "out", "closed"} :
        \/ p = "idle" /\ InIdle(c)
        \/ p = "gc" /\ InGC(c)
        \/ p = "out" /\ CheckedOut(c)
        \/ p = "closed" /\ isClosed[c]}

\* C30 as stated: every connection is in exactly one of the idle channel,
\* the GC channel, checked out, closed; none is in the idle channel and in
\* the GC channel at once, idle-timer expiries included.
C30_OnePlacePerConn ==
    \A c \in 1..dialed :
        /\ Cardinality(Places(c)) = 1
        /\ ~(InIdle(c) /\ InGC(c))

\* --------------------------------------------------------------------- C21
\* the positions of the GetConn calls in a script, in order
GetConnAt(sc) == SelectSeq([i \in 1..Len(sc) |-> i], LAMBDA i : sc[i].op = "GetConn")

\* the addresses of the host map when the call at position p of the script
\* is made (the thread sleeps after every Add and Remove)
RECURSIVE AddrsAt(_, _)
AddrsAt(sc, p) ==
    IF p = 1 THEN {}
    ELSE LET S == AddrsAt(sc, p - 1)
             o == sc[p - 1]
         IN  IF o.op = "Add" THEN S \cup {o.a}
             ELSE IF o.op = "Remove" THEN S \ {o.a} ELSE S

\* no Add and no Remove between positions p and q of the script
SameHosts(sc, p, q) == \A i \in p..q : sc[i].op \notin {"Add", "Remove"}

\* C21: over a host set of n Hosts that does not change between the calls,
\* sets with unused slot numbers included, any n consecutive Select calls
\* return each of the n Hosts once, in whatever order the map is visited.
C21_RoundRobinCircular ==
    LET sc == Script(1)
        at1 == GetConnAt(sc)
        res == got[1]
    IN  \A j \in DOMAIN res :
            LET S == AddrsAt(sc, at1[j])
                n == Cardinality(S)
            IN  /\ res[j] \in S
                /\ (j + n - 1 <= Len(res) /\ SameHosts(sc, at1[j], at1[j + n - 1])) =>
                       {res[i] : i \in j..(j + n - 1)} = S

\* the last four GetConn calls of a test have returned: three Hosts, one of
\* them new, and the slot of the removed Host unused
C21_Witness ==
    /\ test \in RoundRobinTests
    /\ Finished(1)
    /\ Cardinality(Members) = NAddrs
    /\ nextAvailSlot = NAddrs + 1

\* --------------------------------------------------------------------- C23
\* thread t's Release call is made in this step
Releases(t) == Ready(t, "Release") /\ at'[t] # at[t]

\* the score lies in [0, 1]
InRange(sc) == 0 <= sc /\ sc <= ScoreUnit

\* a Release with a score outside [0, 1] on a connection that is checked
\* out returns ErrInvalidArg and changes nothing
InvalidReleaseIsNoOp ==
    \A t \in Threads :
        (Releases(t) /\ held[t] # 0 /\ ~InRange(ArgScore(NextOp(t).a))) =>
            /\ released'[t] = Append(released[t], "invalid")
            /\ held' = held /\ puts' = puts /\ serie' = serie

\* the Release that follows a refused one on the same connection, with a
\* score in [0, 1], goes through: it returns what Pool.Put returns, nil on a
\* pool that no Close was called on
ValidReleaseAfterInvalid ==
    \A t \in Threads :
        (/\ Releases(t) /\ held[t] # 0 /\ InRange(ArgScore(NextOp(t).a))
         /\ released[t] # <<>> /\ released[t][Len(released[t])] = "invalid") =>
            /\ held'[t] = 0
            /\ released'[t] \in {Append(released[t], "nil")} \cup
                   (IF poolClosed[held[t]] THEN {Append(released[t], "closed")}
                    ELSE {})

\* C23: Release on a checked-out connection with a score outside [0, 1]
\* returns ErrInvalidArg and changes nothing (the back-link stays, no Put, no
\* rating), and a later Release with a valid score still succeeds.
C23_InvalidScoreRefused ==
    /\ [][InvalidReleaseIsNoOp]_vars
    /\ [][ValidReleaseAfterInvalid]_vars

\* a Release was refused for its score and the next one, on the same
\* connection, was accepted and rated
C23_Witness ==
    /\ test \in ReleaseTests
    /\ \E t \in Threads :
          /\ Len(released[t]) >= 2
          /\ released[t][1] = "invalid" /\ released[t][2] = "nil"
          /\ Len(puts[1]) = 1

\* --------------------------------------------------------------------- C24
\* an accepted Release: the Put's destination and the rating, on the Host of
\* the connection and on no other
AcceptedRelease ==
    \A t \in Threads :
        (Releases(t) /\ released'[t] = Append(released[t], "nil")) =>
            LET h == held[t]
                sc == ArgScore(NextOp(t).a)
            IN  /\ h # 0
                /\ IF ArgFatal(NextOp(t).a)
                   THEN /\ puts' = [puts EXCEPT ![h] = Append(@, "gc")]
                        /\ serie' = [serie EXCEPT ![h] =
                              [trials |-> @.trials + 1, sum |-> @.sum + HostDown]]
                   ELSE /\ puts' = [puts EXCEPT ![h] = Append(@, "inbound")]
                        /\ serie' = [serie EXCEPT ![h] =
                              [trials |-> @.trials + 1, sum |-> @.sum + sc]]

\* C24: a Release with a fatal error rates the Host HostDown whatever the
\* score passed, and the connection goes to the GC; a Release with nil or
\* a temporary error rates the Host with the caller's score, and the
\* connection goes to the inbound channel.
C24_ReleaseRates == [][AcceptedRelease]_vars

\* a Release(fatal error, HostUp) was the first to rate its Host: one
\* rating, of HostDown, and the connection in the GC
C24_Witness ==
    /\ test \in ReleaseTests
    /\ Script(1)[4] = Op("Release", ReleaseArg(TRUE, HostUp))
    /\ released[1] = <<"nil">>
    /\ serie[1] = [trials |-> 1, sum |-> HostDown]
    /\ puts[1] = <<"gc">>

\* --------------------------------------------------------------------- C25
\* the number of connections the thread's GetConn calls returned
RECURSIVE Conns(_)
Conns(res) ==
    IF res = <<>> THEN 0
    ELSE Conns(Tail(res)) + (IF Head(res) > 0 THEN 1 ELSE 0)

RECURSIVE Sum(_, _)
Sum(f, S) ==
    IF S = {} THEN 0
    ELSE LET x == CHOOSE y \in S : TRUE IN f[x] + Sum(f, S \ {x})

\* a Release of a connection whose back-link is nil returns
\* ErrNoHostAvailable and changes nothing; an accepted Release leaves the
\* back-link nil
SecondReleaseRefused ==
    \A t \in Threads :
        /\ (Releases(t) /\ held[t] = 0) =>
               /\ released'[t] = Append(released[t], "nohost")
               /\ held' = held /\ puts' = puts /\ serie' = serie
        /\ (Releases(t) /\ released'[t] = Append(released[t], "nil")) =>
               held'[t] = 0

\* C25: a connection is handed to Pool.Put at most once per checkout (the
\* Puts accepted and the connections still checked out are no more than the
\* connections GetConn returned); after a successful Release the back-link
\* is nil, and a second Release returns ErrNoHostAvailable, with no Put and no
\* rating.
C25_OnePutPerCheckout ==
    /\ [](Sum([h \in HostIds |-> Len(puts[h])], HostIds)
            + Cardinality({t \in Threads : held[t] # 0})
          <= Sum([t \in Threads |-> Conns(got[t])], Threads))
    /\ [][SecondReleaseRefused]_vars

\* a connection was released twice: accepted, then refused for its nil
\* back-link, with one Put
C25_Witness ==
    /\ test \in ReleaseTests
    /\ Len(released[1]) >= 2
    /\ released[1][1] = "nil" /\ released[1][2] = "nohost"
    /\ Len(got[1]) = 1
    /\ Len(puts[1]) = 1 /\ puts[2] = <<>>

\* --------------------------------------------------------------------- C26
\* the weighted sum of the claim, times m * ScoreUnit * 2 * MaxTrials!: the
\* sum over i = 1..n of i times the value of slot (cursor + i) mod n, which
\* is the mean of the slot if it has trials and 1/2 if it has none
RECURSIVE Factorial(_)
Factorial(k) == IF k = 0 THEN 1 ELSE k * Factorial(k - 1)

Scale == 2 * ScoreUnit * Factorial(MaxTrials)
Triangle(n) == (n * (n + 1)) \div 2

SlotValue(sr) ==
    IF sr.trials > 0 THEN (sr.sum * Scale) \div (sr.trials * ScoreUnit)
    ELSE Scale \div 2

RECURSIVE Weighted(_, _, _)
Weighted(ts, cursor, i) ==
    IF i = 0 THEN 0
    ELSE i * SlotValue(ts[((cursor + i) % Len(ts)) + 1]) + Weighted(ts, cursor, i - 1)

\* ratings 0.6, 0.3 and 1.0 in three successive slots
ThreeRatings ==
    IF ScoreUnit % 10 = 0
    THEN <<rate(NoSerie, (6 * ScoreUnit) \div 10),
           rate(NoSerie, (3 * ScoreUnit) \div 10), rate(NoSerie, HostUp)>>
    ELSE <<>>

\* a score that computeScore has just stored is the weighted sum of the
\* series over m; in particular 1/2 for a Host with no trials, and 7/10 for
\* ratings 0.6, 0.3 and 1.0 in three successive slots
ScoreStored ==
    memo' # memo =>
        LET n == Len(timeSeries) IN
        /\ memo'.num * Triangle(n) * Scale
               = memo'.den * Weighted(timeSeries, timeSlot, n)
        /\ (\A k \in 1..n : timeSeries[k].trials = 0) => memo' = Frac(1, 2)
        /\ (timeSlot = 2 /\ timeSeries = ThreeRatings) => memo' = Frac(7, 10)

\* the weight of slot k of the series, times m: the round i of the loop
\* that visits it
WeightOf(k, cursor, n) == CHOOSE i \in 1..n : (cursor + i) % n = k

\* C26: computeScore stores the sum over i = 1..n of (i/m) v_i, n the
\* number of series and m = n(n+1)/2, slot (cursor + i) mod n giving its mean
\* if it has trials and 0.5 if not; the weights sum to 1 and the current
\* slot has the largest; a Host with no trials scores 0.5; ratings 0.6, 0.3,
\* 1.0 in three successive decay slots give 0.7.
C26_ComputeScore ==
    /\ [][ScoreStored]_vars
    /\ [](LET n == Len(timeSeries) IN
          /\ Sum([i \in 1..n |-> i], 1..n) = Triangle(n)
          /\ \A k \in 0..(n - 1) :
                WeightOf(k, timeSlot, n) <= WeightOf(timeSlot, timeSlot, n))

\* the score 0.7 of the three ratings is stored
C26_Witness ==
    /\ strategy = "EpsilonGreedy"
    /\ timeSlot = 2
    /\ timeSeries = ThreeRatings
    /\ memo = Frac(7, 10)

\* --------------------------------------------------------------------- C22
\* C22: Select of RoundRobin, EpsilonGreedy and SoftMax on a non-empty map
\* returns a Host of the map, never nil, whatever the scores (-1 included)
\* and the random draws, also when several threads select while scores are
\* stored.
C22_SelectReturnsMember ==
    \A t \in Threads : \A i \in DOMAIN got[t] : got[t][i] \in Members

\* the same of RoundRobin and EpsilonGreedy only
C22_ButSoftMax == strategy # "SoftMax" => C22_SelectReturnsMember

\* --------------------------------------------------------------------- C27
\* C27: a Host the service deletes, on Remove or on Service.Close, leaves
\* the map, and its pool reaches CLOSED in the end: when its connections are
\* all returned, or else by the ForceClose of the CloseDeadline timer, even
\* if connections taken from it are never released.
C27_DeletedHostCloses ==
    /\ [][(servepc = "deleteHost" /\ servepc' = "select") => hosts'[servea] = 0]_vars
    /\ (hosts[1] = 0) ~> (status = closed)

\* --------------------------------------------------------------------- C31
\* a GetConn that returns a connection leaves its back-link on the Host
\* whose address the connection has
GetConnLinks ==
    \A t \in Threads :
        (thr[t].pc = "get" /\ Len(got'[t]) > Len(got[t])
            /\ got'[t][Len(got'[t])] > 0) =>
            /\ held'[t] # 0
            /\ hostAddr[held'[t]] = got'[t][Len(got'[t])]

\* a Release clears a back-link exactly when the connection leaves the
\* caller, that is when Pool.Put takes it for the idle channel or the GC
ReleaseUnlinks ==
    \A t \in Threads :
        (Releases(t) /\ held[t] # 0) =>
            (held'[t] = 0 <=> Len(puts'[held[t]]) = Len(puts[held[t]]) + 1)

\* C31: the back-link of a connection got through the service is set if and
\* only if the connection is checked out: a successful GetConn sets it,
\* Release clears it before the connection reaches Pool.Put, and it is nil
\* on every connection of the idle channel and of the GC.
C31_BackLinkIffCheckedOut ==
    /\ [][GetConnLinks]_vars
    /\ [][ReleaseUnlinks]_vars

\* the part of it that GetConn and an accepted Release are about
C31_ButRefusedPut ==
    /\ [][GetConnLinks]_vars
    /\ [][\A t \in Threads :
            (/\ Releases(t) /\ held[t] # 0
             /\ Len(puts'[held[t]]) = Len(puts[held[t]]) + 1) =>
                held'[t] = 0]_vars

\* --------------------------------------------------------------------- C32
\* what the service has of its Hosts: the map, the Hosts created and their
\* pools, series and scores, and the pools being closed
HostsState ==
    <<hosts, hostCount, hostAddr, score, serie, poolClosed, closers, puts>>

\* serve's newHost on an address of the map, and its deleteHost on an
\* address that is not in it, leave all of this as it is
NoOpStep ==
    (\/ servepc = "newHost" /\ servepc' = "select" /\ hosts[servea] # 0
     \/ servepc = "deleteHost" /\ servepc' = "select" /\ hosts[servea] = 0) =>
        UNCHANGED <<HostsState, pool>>

\* C32: Add of an address that is in the map is a no-op: the Host, its
\* pool, its series and its score stay as they are, no second pool is
\* created and no connection is prespawned; Remove of an address that is not
\* in the map changes nothing.
C32_AddKnownRemoveUnknown == [][NoOpStep]_vars

\* both threads added address 1, between the two a connection of its Host
\* was rated, and there is one Host
C32_Witness ==
    /\ test \in GenericTests
    /\ Script(1) = <<Op("Add", 1), Op("Add", 1)>>
    /\ Script(2) = <<Op("GetConn", 0), Op("Release", ReleaseArg(FALSE, HostUp))>>
    /\ \A t \in Threads : Finished(t)
    /\ servepc = "select"
    /\ hostCount = 1
    /\ serie[1] = rate(NoSerie, HostUp)

\* an address that was never added was removed, and there is no Host
C32_WitnessRemove ==
    /\ test \in GenericTests
    /\ Script(1) = <<Op("Remove", 1)>>
    /\ Script(2) = <<>>
    /\ Finished(1)
    /\ servepc = "select"
    /\ hostCount = 0

\* --------------------------------------------------------------------- C33
\* the cursor is a slot of the series, which has at most seriesNum slots
CursorInSeries ==
    0 <= timeSlot /\ timeSlot < Len(timeSeries) /\ Len(timeSeries) <= SeriesNum

\* a decay moves the cursor on by one modulo seriesNum, and appends an empty
\* serie while there are fewer than seriesNum, else empties the serie at the
\* new cursor; the other series stay
DecayStep ==
    timeSlot' # timeSlot =>
        /\ timeSlot' = (timeSlot + 1) % SeriesNum
        /\ \A k \in 1..Len(timeSeries) :
              k # timeSlot' + 1 => timeSeries'[k] = timeSeries[k]
        /\ timeSeries'[timeSlot' + 1] = [trials |-> 0, sum |-> 0]
        /\ Len(timeSeries') =
              IF Len(timeSeries) < SeriesNum THEN Len(timeSeries) + 1
              ELSE SeriesNum

\* a rating goes to the serie at the cursor: one more trial there, and
\* nothing else changes
RateStep ==
    (timeSlot' = timeSlot /\ timeSeries' # timeSeries) =>
        /\ Len(timeSeries') = Len(timeSeries)
        /\ \A k \in 1..Len(timeSeries) :
              k # timeSlot + 1 => timeSeries'[k] = timeSeries[k]
        /\ timeSeries'[timeSlot + 1].trials = timeSeries[timeSlot + 1].trials + 1
        /\ timeSeries'[timeSlot + 1].sum - timeSeries[timeSlot + 1].sum
              \in 0..ScoreUnit

\* C33: after any decays and ratings of a Host, 0 <= cursor < len(series)
\* <= seriesNum; a decay moves the cursor on by one modulo seriesNum, appends
\* an empty serie while there are fewer than seriesNum and else resets the
\* serie at the new cursor, the others staying; a rating updates the serie
\* at the cursor.
C33_DecayAndRate ==
    /\ []CursorInSeries
    /\ [][DecayStep]_vars
    /\ [][RateStep]_vars

\* the cursor has wrapped: the first serie was reset and left empty, the
\* second was reset after it and has one rating since
C33_Witness ==
    /\ strategy = "EpsilonGreedy"
    /\ Len(timeSeries) = SeriesNum
    /\ timeSlot = 1
    /\ timeSeries[1] = NoSerie
    /\ timeSeries[2].trials = 1
    /\ timeSeries[SeriesNum].trials = MaxTrials

\* --------------------------------------------------------------------- C34
\* thread t's Select returns from the exploit loop of EpsilonGreedy
ExploitReturns(t) == sel[t].pc = "exploit" /\ Len(got'[t]) > Len(got[t])

\* the host returned has a score that no Host of the map exceeds
ReturnsMaximum(t) ==
    LET host == got'[t][Len(got'[t])] IN
    /\ host \in Members
    /\ \A h \in Members : score[host] >= score[h]

\* C34: in its exploit branch EpsilonGreedy.Select returns a Host whose
\* memoized score is greater than or equal to the score of every other Host
\* of the map.
C34_ExploitReturnsMaximum ==
    [][\A t \in Threads : ExploitReturns(t) => ReturnsMaximum(t)]_vars

\* it does so whenever no score was memoized between the loop's read of it
\* and the return
C34_ExploitReturnsMaximumRead ==
    [][\A t \in Threads :
          (ExploitReturns(t) /\ ~sel[t].stale) => ReturnsMaximum(t)]_vars

\* --------------------------------------------------------------------- C35
\* a Get at its second select
Waiting(r) == At(r, "Get", "wait")

\* the pool is CLOSED and every Get under way is blocked in its second
\* select, the idle channel being empty
BlockedAtClosed ==
    /\ status = closed /\ conns = <<>>
    /\ \E r \in Records : Waiting(r)
    /\ \A r \in Records : r.op = "Get" => Waiting(r)

\* a Get has received a connection
GotOne == \E r \in Records : r.op = "Get" /\ r.c # Nil

\* C35: a Get blocked on the idle channel when the pool becomes CLOSED, by
\* the GC's drain-complete transition or by ForceClose, is woken with nil
\* and returns ErrPoolClosed; it does not stay blocked.
C35_BlockedGetWoken ==
    /\ [](BlockedAtClosed => [](~GotOne))
    /\ BlockedAtClosed ~> (\A r \in Records : ~Waiting(r))

\* a Get that is still blocked when the idle channel is closed receives nil
\* and returns ErrPoolClosed, unless the program has panicked
C35_ButStaleSend ==
    /\ [][\A r \in Records :
            (Waiting(r) /\ connsClosed /\ conns = <<>>
                /\ CopiesIn(r, calls') < CopiesIn(r, calls)) =>
                CopiesIn(Ret(r, "closed"), calls') > CopiesIn(Ret(r, "closed"), calls)]_vars
    /\ (connsClosed /\ \E r \in Records : Waiting(r)) ~>
            (panicked # "" \/ \A r \in Records : ~Waiting(r))

\* --------------------------------------------------------------------- C36
\* C36: every ForceClose call returns: its kill is never blocked for ever
\* on the control channel of the GC, whatever the interleaving with the
\* wakeup of Close and with the exit of the GC that saw the pool drained.
C36_ForceCloseReturns ==
    (\E r \in Records : r.op = "ForceClose" /\ r.pc # "ret") ~>
        (\A r \in Records : r.op = "ForceClose" => r.pc = "ret")

\* --------------------------------------------------------------------- C37
\* the goroutines that have won the set to CLOSED and are at their
\* close(p.conns), and the idle channel if it is closed
Closers ==
    (IF gcpc = "closeconns" THEN 1 ELSE 0)
    + Sum([r \in Records |-> CopiesIn(r, calls)],
          {r \in Records : At(r, "ForceClose", "closeconns")})
    + (IF connsClosed THEN 1 ELSE 0)

\* C37: the idle channel is closed exactly once per pool that reaches
\* CLOSED: of the drain-complete path of the GC and ForceClose exactly one
\* wins the set to CLOSED and closes the channel, and no close(p.conns)
\* finds the channel closed.
C37_IdleClosedOnce ==
    /\ panicked \notin {"collect", "ForceClose"}
    /\ Closers = IF status = closed THEN 1 ELSE 0

\* ForceClose has closed the idle channel and has not sent its kill: the GC
\* has exited because it saw the pool drained and lost the set to CLOSED
C37_Witness ==
    /\ status = closed /\ connsClosed /\ gcpc = "exit"
    /\ \E r \in Records : At(r, "ForceClose", "kill")

\* --------------------------------------------------------------------- C38
\* C38: a connection that Get returns is open at that moment: Driver.Close
\* has not been invoked on it and it has no entry in the GC channel,
\* whatever the idle timers, the drain of Close and the GC do meanwhile.
C38_GetReturnsOpen ==
    \A r \in Records :
        (At(r, "Get", "ret") /\ r.ret = "conn") =>
            /\ r.c \in 1..dialed
            /\ ~isClosed[r.c] /\ driverClosed[r.c] = 0
            /\ ~InGC(r.c)

\* Get returns a connection whose idle timer it has stopped, during the
\* drain of a Close, another connection being on its way to the GC
C38_Witness ==
    /\ status = closing
    /\ \E r \in Records :
        /\ At(r, "Get", "ret") /\ r.ret = "conn" /\ timer[r.c] = "off"
        /\ \E c \in ConnIds : c # r.c /\ InGC(c)

\* --------------------------------------------------------------------- C39
\* the GC has seen the pool drained
Drained39 == gcpc \in {"setclosed", "closeconns"} \/ (status = closed /\ ~forceCalled)

\* C39: the GC that drains a CLOSING pool parks the counter at MaxConns
\* before the status becomes CLOSED; from then on no spawner increments the
\* counter or dials, and ActiveConns() of a pool closed by its drain reads
\* MaxConns.
C39_DrainParksCounter ==
    /\ [](Drained39 => ActiveConns = MaxConns)
    /\ [][(gcpc = "setclosed" /\ status' = closed) => connsCount = MaxConns]_vars
    /\ [][Drained39 => (connsCount' = connsCount /\ dialed' = dialed)]_vars

\* the pool was closed by its drain while a spawner was launched and had
\* not run
C39_Witness ==
    /\ status = closed /\ ~forceCalled /\ connsClosed
    /\ dialed > 0 /\ pending > 0 /\ ActiveConns = MaxConns

\* --------------------------------------------------------------------- C40
\* the open connections that are idle and not expired, or checked out
OpenConns ==
    {c \in 1..dialed : ~isClosed[c] /\ ((InIdle(c) /\ ~Expired(c)) \/ CheckedOut(c))}

\* what collect does to the counter with the entry it receives
DecrementPerEntry ==
    (gcpc = "select" /\ gc # <<>> /\ gc' = Tail(gc)) =>
        connsCount' = IF Head(gc) = Nil \/ ~isClosed[Head(gc)]
                      THEN connsCount - 1 ELSE connsCount

\* no spawner is running and the GC channel is empty
NoSpawnerNoGC == status = active /\ pending = 0 /\ spawners = EmptyBag /\ gc = <<>>

\* C40 as stated: every decrement of the counter is matched by one earlier increment
\* (one per sentinel of a failed spawn, one per first close of a connection,
\* none for a duplicate that is closed), so that in every quiescent state of
\* an ACTIVE pool, no spawner running and the GC channel empty, the counter
\* is the number of open connections, idle and unexpired or checked out.
C40_CounterAccounting ==
    /\ [][DecrementPerEntry]_vars
    /\ [](NoSpawnerNoGC => ActiveConns = Cardinality(OpenConns))

\* no goroutine of an idle timer is between the expiry and its `p.gc <- c`
NoTimerFired == \A c \in ConnIds : timer[c] # "fired"

\* C40 as amended: every decrement is matched by one earlier increment, and
\* the counter is the number of open connections, idle and unexpired or
\* checked out, in every state of an ACTIVE pool in which no spawner is
\* running, the GC channel is empty and no expired connection is on its
\* way to the GC channel
C40_CounterAccountingQuiet ==
    /\ [][DecrementPerEntry]_vars
    /\ []((NoSpawnerNoGC /\ NoTimerFired) => ActiveConns = Cardinality(OpenConns))

\* a quiescent ACTIVE pool with one connection checked out, after the GC
\* has closed the other
C40_Witness ==
    /\ NoSpawnerNoGC /\ NoTimerFired /\ calls = EmptyBag
    /\ dialed = 2 /\ ActiveConns = 1
    /\ \E c, d \in 1..dialed : isClosed[c] /\ timer[c] = "off" /\ out = {d}

====
